---- MODULE Spec2Model ----
(***************************************************************************)
(* State-machine model of the CSS-to-utility-class conversion of the       *)
(* TailwindCSS MCP server: UtilityMapperService (property table, value     *)
(* resolution, arbitrary-value synthesis, declaration walk), the           *)
(* ConversionService entry point and the tool layer that validates the     *)
(* request parameters; and of the page cache of                            *)
(* DocumentationScraperService (CachedService).                            *)
(*                                                                         *)
(* Strings are sequences of one-character strings, so that concatenation,  *)
(* joining and the whitespace clean-up are computed and not assumed.       *)
(* An optional value (T | null | undefined) is a sequence of length <= 1.  *)
(***************************************************************************)
EXTENDS Integers, Sequences, FiniteSets, TLC

(* ---- bounds of the model ---- *)
MaxCssLen == 2      \* items (whitespace, declarations, malformed fragments) in one CSS text
MaxInits == 1       \* initialize() calls without an intervening cleanup()
MaxCalls == 2       \* conversion calls in flight at once (ConcurrentSpec)
MaxReloads == 2     \* table loads without an intervening cleanup() (ConcurrentSpec)
MaxScrapes == 2     \* scrapePage calls made in one behaviour (ScraperSpec)
MaxTicks == 2       \* clock advances in one behaviour (ScraperSpec, CacheSpec)
MaxProbes == 3      \* updateCacheStats calls between two clearCache() calls (CacheSpec)
MaxServices == 2    \* names under which services are registered (RegistrySpec)

VARIABLES utilityMap,      \* UtilityMapperService.utilityMap: class name -> TailwindUtility
          cssPropertyMap,  \* UtilityMapperService.cssPropertyMap: CSS property -> list of class names
          colorMap,        \* UtilityMapperService.colorMap: color name -> ColorInfo
          initPending,     \* initialize() calls suspended between loadUtilityMappings and loadColorMappings
          calls,           \* conversion calls: arguments, suspension state and outcome
          cache,           \* CachedService.cache: cache key -> CachedDocument
          cacheHits,       \* CachedService.cacheHits
          cacheRequests,   \* CachedService.cacheRequests
          lastCleanup,     \* CachedService.lastCleanup (ms)
          now,             \* Date.now() (ms since the service was constructed)
          scrapes,         \* scrapePage calls in call order: arguments, suspension state and outcome
          statCalls,       \* updateCacheStats calls since construction or the last clearCache(): all, and those with isHit
          services,        \* ServiceRegistry.services: name -> registered service
          registryCall     \* the initializeAll() / cleanupAll() call in progress: its promises and outcome

mapperVars == <<utilityMap, cssPropertyMap, colorMap, initPending, calls>>
scraperVars == <<cache, cacheHits, cacheRequests, lastCleanup, now, scrapes, statCalls>>
registryVars == <<services, registryCall>>
vars == <<utilityMap, cssPropertyMap, colorMap, initPending, calls,
          cache, cacheHits, cacheRequests, lastCleanup, now, scrapes, statCalls,
          services, registryCall>>

(* ---- optional values and maps ---- *)
None == <<>>
Some(x) == <<x>>
EmptyMap == [k \in {} |-> k]
MapHas(m, k) == k \in DOMAIN m
MapGet(m, k) == IF k \in DOMAIN m THEN Some(m[k]) ELSE None
MapSet(m, k, v) == (k :> v) @@ m

(* ---- string literals of the source ---- *)
P_margin == <<"m", "a", "r", "g", "i", "n">>
P_padding == <<"p", "a", "d", "d", "i", "n", "g">>
P_width == <<"w", "i", "d", "t", "h">>
P_height == <<"h", "e", "i", "g", "h", "t">>
P_display == <<"d", "i", "s", "p", "l", "a", "y">>
P_font_size == <<"f", "o", "n", "t", "-", "s", "i", "z", "e">>
P_top == <<"t", "o", "p">>
P_right == <<"r", "i", "g", "h", "t">>
P_bottom == <<"b", "o", "t", "t", "o", "m">>
P_left == <<"l", "e", "f", "t">>
P_line_height == <<"l", "i", "n", "e", "-", "h", "e", "i", "g", "h", "t">>
P_color == <<"c", "o", "l", "o", "r">>
P_background_color == <<"b", "a", "c", "k", "g", "r", "o", "u", "n", "d", "-", "c", "o", "l", "o", "r">>
P_border_color == <<"b", "o", "r", "d", "e", "r", "-", "c", "o", "l", "o", "r">>
P_filter == <<"f", "i", "l", "t", "e", "r">>

UtilityMappings ==
  << << <<"m", "-", "0">>, P_margin, <<"0">>, "spacing" >>,
     << <<"m", "-", "1">>, P_margin, <<"0", ".", "2", "5", "r", "e", "m">>, "spacing" >>,
     << <<"m", "-", "2">>, P_margin, <<"0", ".", "5", "r", "e", "m">>, "spacing" >>,
     << <<"m", "-", "4">>, P_margin, <<"1", "r", "e", "m">>, "spacing" >>,
     << <<"m", "-", "8">>, P_margin, <<"2", "r", "e", "m">>, "spacing" >>,
     << <<"p", "-", "0">>, P_padding, <<"0">>, "spacing" >>,
     << <<"p", "-", "1">>, P_padding, <<"0", ".", "2", "5", "r", "e", "m">>, "spacing" >>,
     << <<"p", "-", "2">>, P_padding, <<"0", ".", "5", "r", "e", "m">>, "spacing" >>,
     << <<"p", "-", "4">>, P_padding, <<"1", "r", "e", "m">>, "spacing" >>,
     << <<"p", "-", "8">>, P_padding, <<"2", "r", "e", "m">>, "spacing" >>,
     << <<"w", "-", "a", "u", "t", "o">>, P_width, <<"a", "u", "t", "o">>, "sizing" >>,
     << <<"w", "-", "f", "u", "l", "l">>, P_width, <<"1", "0", "0", "%">>, "sizing" >>,
     << <<"w", "-", "1", "/", "2">>, P_width, <<"5", "0", "%">>, "sizing" >>,
     << <<"w", "-", "1", "/", "3">>, P_width, <<"3", "3", ".", "3", "3", "3", "3", "3", "3", "%">>, "sizing" >>,
     << <<"h", "-", "a", "u", "t", "o">>, P_height, <<"a", "u", "t", "o">>, "sizing" >>,
     << <<"h", "-", "f", "u", "l", "l">>, P_height, <<"1", "0", "0", "%">>, "sizing" >>,
     << <<"h", "-", "s", "c", "r", "e", "e", "n">>, P_height, <<"1", "0", "0", "v", "h">>, "sizing" >>,
     << <<"b", "l", "o", "c", "k">>, P_display, <<"b", "l", "o", "c", "k">>, "layout" >>,
     << <<"i", "n", "l", "i", "n", "e">>, P_display, <<"i", "n", "l", "i", "n", "e">>, "layout" >>,
     << <<"f", "l", "e", "x">>, P_display, <<"f", "l", "e", "x">>, "flexbox" >>,
     << <<"g", "r", "i", "d">>, P_display, <<"g", "r", "i", "d">>, "grid" >>,
     << <<"h", "i", "d", "d", "e", "n">>, P_display, <<"n", "o", "n", "e">>, "layout" >>,
     << <<"t", "e", "x", "t", "-", "x", "s">>, P_font_size, <<"0", ".", "7", "5", "r", "e", "m">>, "typography" >>,
     << <<"t", "e", "x", "t", "-", "s", "m">>, P_font_size, <<"0", ".", "8", "7", "5", "r", "e", "m">>, "typography" >>,
     << <<"t", "e", "x", "t", "-", "b", "a", "s", "e">>, P_font_size, <<"1", "r", "e", "m">>, "typography" >>,
     << <<"t", "e", "x", "t", "-", "l", "g">>, P_font_size, <<"1", ".", "1", "2", "5", "r", "e", "m">>, "typography" >>,
     << <<"t", "e", "x", "t", "-", "x", "l">>, P_font_size, <<"1", ".", "2", "5", "r", "e", "m">>, "typography" >> >>

propertyAbbreviations ==
  (P_margin :> <<"m">>) @@
  (P_padding :> <<"p">>) @@
  (P_width :> <<"w">>) @@
  (P_height :> <<"h">>) @@
  (P_top :> <<"t", "o", "p">>) @@
  (P_right :> <<"r", "i", "g", "h", "t">>) @@
  (P_bottom :> <<"b", "o", "t", "t", "o", "m">>) @@
  (P_left :> <<"l", "e", "f", "t">>) @@
  (P_font_size :> <<"t", "e", "x", "t">>) @@
  (P_line_height :> <<"l", "e", "a", "d", "i", "n", "g">>) @@
  (P_color :> <<"t", "e", "x", "t">>) @@
  (P_background_color :> <<"b", "g">>) @@
  (P_border_color :> <<"b", "o", "r", "d", "e", "r">>)

L_ConsiderUsing == <<"C", "o", "n", "s", "i", "d", "e", "r", " ", "u", "s", "i", "n", "g", " ">>
L_For == <<" ", "f", "o", "r", " ">>
L_ColonSpace == <<":", " ">>
L_Space == <<" ">>

(* ---- JavaScript primitives used by the services ---- *)

\* the characters matched by \s that occur in the modelled inputs
WhitespaceChars == {" ", "\t", "\n"}

\* truthiness of a (string | null | undefined): present and not the empty string
Truthy(opt) == opt # None /\ opt[1] # <<>>

RECURSIVE skipWhitespace(_)
skipWhitespace(s) ==
  IF s # <<>> /\ Head(s) \in WhitespaceChars THEN skipWhitespace(Tail(s)) ELSE s

\* variant: replaces every whitespace character, not every run (/\s/g)
RECURSIVE replaceWhitespaceRuns_perChar(_)
replaceWhitespaceRuns_perChar(s) ==
  IF s = <<>> THEN <<>>
  ELSE IF Head(s) \in WhitespaceChars
       THEN <<"_">> \o replaceWhitespaceRuns_perChar(Tail(s))
       ELSE <<Head(s)>> \o replaceWhitespaceRuns_perChar(Tail(s))

\* String.prototype.replace(/\s+/g, '_')
RECURSIVE replaceWhitespaceRuns(_)
replaceWhitespaceRuns(s) ==
  IF s = <<>> THEN <<>>
  ELSE IF Head(s) \in WhitespaceChars
       THEN <<"_">> \o replaceWhitespaceRuns(skipWhitespace(Tail(s)))
       ELSE <<Head(s)>> \o replaceWhitespaceRuns(Tail(s))

\* Array.prototype.join
RECURSIVE join(_, _)
join(arr, sep) ==
  IF arr = <<>> THEN <<>>
  ELSE IF Len(arr) = 1 THEN arr[1]
       ELSE arr[1] \o sep \o join(Tail(arr), sep)

(* ---- UtilityMapperService: the property table ---- *)

\* addUtility: registers the utility and appends its id to the property's list.
\* The fields modifiers, examples and documentation are functions of the
\* arguments and are read by no modelled operation.
addUtility(maps, className, cssProperty, cssValue, category) ==
  LET utility == [id |-> className, name |-> className, category |-> category,
                  cssProperty |-> cssProperty,
                  values |-> << [class |-> className, value |-> cssValue, isDefault |-> FALSE] >>]
      existingUtilities == IF MapHas(maps.cssPropertyMap, cssProperty)
                           THEN maps.cssPropertyMap[cssProperty] ELSE <<>>
  IN  [utilityMap |-> MapSet(maps.utilityMap, className, utility),
       cssPropertyMap |-> MapSet(maps.cssPropertyMap, cssProperty,
                                 Append(existingUtilities, className))]

RECURSIVE addUtilities(_, _)
addUtilities(maps, mappings) ==
  IF mappings = <<>> THEN maps
  ELSE LET m == Head(mappings)
       IN  addUtilities(addUtility(maps, m[1], m[2], m[3], m[4]), Tail(mappings))

\* loadUtilityMappings: the 27 addUtility calls, in source order
loadUtilityMappings(maps) == addUtilities(maps, UtilityMappings)

ColorNames == {"slate", "blue"}
ShadeKeys == {"50", "100", "200", "300", "400", "500", "600", "700", "800", "900"}

\* loadColorMappings: colorMap.set(colorName, {name, shades, usage}) for both
\* palettes; usage is a function of the name and the shade keys.
loadColorMappings(cm) ==
  [c \in (DOMAIN cm) \cup ColorNames |->
     IF c \in ColorNames THEN [name |-> c, shades |-> ShadeKeys] ELSE cm[c]]

\* the table a service holds after one initialize() on a fresh instance
LoadedMaps == loadUtilityMappings([utilityMap |-> EmptyMap, cssPropertyMap |-> EmptyMap])

(* ---- UtilityMapperService: value resolution ---- *)

RECURSIVE matchValues(_, _)
matchValues(values, cssValue) ==
  IF values = <<>> THEN None
  ELSE IF Head(values).value = cssValue THEN Some(Head(values).class)
       ELSE matchValues(Tail(values), cssValue)

RECURSIVE matchUtilities(_, _, _)
matchUtilities(utilities, um, cssValue) ==
  IF utilities = <<>> THEN None
  ELSE LET utility == MapGet(um, Head(utilities))
           found == IF utility # None THEN matchValues(utility[1].values, cssValue) ELSE None
       IN  IF found # None THEN found ELSE matchUtilities(Tail(utilities), um, cssValue)

\* variant: a value matched by more than one entry of the property's list counts as
\* ambiguous and gives no match
findBestUtilityMatch_uniqueOnly(pm, um, cssProperty, cssValue) ==
  LET utilities == IF MapHas(pm, cssProperty) THEN pm[cssProperty] ELSE <<>>
      hits == { i \in 1..Len(utilities) :
                  /\ MapHas(um, utilities[i])
                  /\ matchValues(um[utilities[i]].values, cssValue) # None }
  IN  IF Cardinality(hits) = 1 THEN matchUtilities(utilities, um, cssValue) ELSE None

\* findBestUtilityMatch: first utility of the property, in list order, one of
\* whose values equals the CSS value; null when there is none
findBestUtilityMatch(pm, um, cssProperty, cssValue) ==
  matchUtilities(IF MapHas(pm, cssProperty) THEN pm[cssProperty] ELSE <<>>, um, cssValue)

\* createArbitraryUtility: '<abbreviation>-[<cleanValue>]', null without abbreviation
createArbitraryUtility(cssProperty, cssValue) ==
  LET abbreviation == MapGet(propertyAbbreviations, cssProperty)
  IN  IF Truthy(abbreviation)
      THEN Some(abbreviation[1] \o <<"-", "[">> \o replaceWhitespaceRuns(cssValue) \o <<"]">>)
      ELSE None

generateArbitraryUtility(property, value) == createArbitraryUtility(property, value)

(* ---- UtilityMapperService: the queries ---- *)

\* getUtilitiesByCategory: the utilities whose category id is the argument. The
\* result is given as a set; the order of the array is the Map's insertion order.
getUtilitiesByCategory(um, category) ==
  { um[k] : k \in { x \in DOMAIN um : um[x].category = category } }

\* getUtilitiesByProperty: the utilities of the property's list that utilityMap
\* holds, in list order
getUtilitiesByProperty(pm, um, property) ==
  LET utilities == IF MapHas(pm, property) THEN pm[property] ELSE <<>>
      defined == SelectSeq(utilities, LAMBDA utilityId : MapHas(um, utilityId))
  IN  [i \in 1..Len(defined) |-> um[defined[i]]]

\* getColorInfo(colorName?): the colour of that name if there is one, all colours
\* when no name (or an empty one) is given; as a set
getColorInfo(cm, colorName) ==
  IF colorName # None /\ colorName[1] # ""
  THEN (IF MapHas(cm, colorName[1]) THEN {cm[colorName[1]]} ELSE {})
  ELSE { cm[k] : k \in DOMAIN cm }

(* ---- UtilityMapperService: the declaration walk ---- *)

\* variant: the three arrays are fields of the service and are not reset, so a call
\* starts from what the calls that settled before it have left
EmptyAcc_shared ==
  LET others == SelectSeq(calls, LAMBDA k : k.status = "resolved")
  IN  [tailwindClasses |->
         SelectSeq([i \in 1..Len(others) |-> others[i].result[1].tailwindClasses],
                   LAMBDA t : t # <<>>),
       unsupportedStyles |-> <<>>, suggestions |-> <<>>]

\* the three local arrays of a call
EmptyAcc == [tailwindClasses |-> <<>>, unsupportedStyles |-> <<>>, suggestions |-> <<>>]

\* variants of the callback, each with one slip
visitDeclVariant(acc, decl, pm, um, slip) ==
  LET cssProperty == decl.prop
      cssValue == decl.value
      utilities == MapGet(pm, cssProperty)
      inTable == utilities # None /\ Len(utilities[1]) > 0
      matchingUtility == findBestUtilityMatch(pm, um, cssProperty, cssValue)
      arbitraryUtility == createArbitraryUtility(cssProperty, cssValue)
      pushClass(cls) ==
        IF slip = "dedup" /\ \E i \in 1..Len(acc.tailwindClasses) : acc.tailwindClasses[i] = cls
        THEN acc ELSE [acc EXCEPT !.tailwindClasses = Append(@, cls)]
      pushArbitrary ==
        [acc EXCEPT !.tailwindClasses = Append(@, arbitraryUtility[1]),
                    !.suggestions = Append(@, L_ConsiderUsing \o arbitraryUtility[1]
                                              \o L_For \o cssProperty \o L_ColonSpace \o cssValue)]
      unsupportedEntry == cssProperty \o L_ColonSpace \o cssValue
      pushUnsupported ==
        IF slip = "dropsUnknown" /\ ~inTable THEN acc
        ELSE IF slip = "suggestsUnsupported"
             THEN [acc EXCEPT !.unsupportedStyles = Append(@, unsupportedEntry),
                              !.suggestions = Append(@, L_ConsiderUsing \o unsupportedEntry)]
             ELSE [acc EXCEPT !.unsupportedStyles = Append(@, unsupportedEntry)]
  IN  IF inTable
      THEN IF slip = "arbitraryFirst" /\ Truthy(arbitraryUtility) THEN pushArbitrary
           ELSE IF Truthy(matchingUtility) THEN pushClass(matchingUtility[1])
           ELSE IF Truthy(arbitraryUtility) THEN pushArbitrary
           ELSE pushUnsupported
      ELSE IF slip = "arbitraryForUnknown" /\ Truthy(arbitraryUtility) THEN pushArbitrary
           ELSE pushUnsupported

visitDecl_dropsUnknown(acc, decl, pm, um) == visitDeclVariant(acc, decl, pm, um, "dropsUnknown")
visitDecl_arbitraryFirst(acc, decl, pm, um) == visitDeclVariant(acc, decl, pm, um, "arbitraryFirst")
visitDecl_arbitraryForUnknown(acc, decl, pm, um) == visitDeclVariant(acc, decl, pm, um, "arbitraryForUnknown")
visitDecl_dedup(acc, decl, pm, um) == visitDeclVariant(acc, decl, pm, um, "dedup")
visitDecl_suggestsUnsupported(acc, decl, pm, um) == visitDeclVariant(acc, decl, pm, um, "suggestsUnsupported")

\* the callback of root.walkDecls
visitDecl(acc, decl, pm, um) ==
  LET cssProperty == decl.prop
      cssValue == decl.value
      utilities == MapGet(pm, cssProperty)
      unsupported == [acc EXCEPT !.unsupportedStyles =
                        Append(@, cssProperty \o L_ColonSpace \o cssValue)]
  IN  IF utilities # None /\ Len(utilities[1]) > 0
      THEN LET matchingUtility == findBestUtilityMatch(pm, um, cssProperty, cssValue)
           IN  IF Truthy(matchingUtility)
               THEN [acc EXCEPT !.tailwindClasses = Append(@, matchingUtility[1])]
               ELSE LET arbitraryUtility == createArbitraryUtility(cssProperty, cssValue)
                    IN  IF Truthy(arbitraryUtility)
                        THEN [acc EXCEPT
                                !.tailwindClasses = Append(@, arbitraryUtility[1]),
                                !.suggestions = Append(@, L_ConsiderUsing \o arbitraryUtility[1]
                                                          \o L_For \o cssProperty
                                                          \o L_ColonSpace \o cssValue)]
                        ELSE unsupported
      ELSE unsupported

RECURSIVE walkDecls(_, _, _, _)
walkDecls(acc, decls, pm, um) ==
  IF decls = <<>> THEN acc
  ELSE walkDecls(visitDecl(acc, Head(decls), pm, um), Tail(decls), pm, um)

(* ---- the external CSS parser ---- *)

\* A CSS text is a sequence of items: a whitespace character, the selector and
\* braces of a rule, a declaration (inside some rule) or a fragment the parser
\* rejects.
WsItem(ch) == [kind |-> "ws", prop |-> <<>>, value |-> <<ch>>]
RuleItem == [kind |-> "rule", prop |-> <<>>, value |-> <<>>]
DeclItem(p, v) == [kind |-> "decl", prop |-> p, value |-> v]
BadItem == [kind |-> "bad", prop |-> <<>>, value |-> <<>>]

RECURSIVE declsOf(_)
declsOf(css) ==
  IF css = <<>> THEN <<>>
  ELSE IF Head(css).kind = "decl"
       THEN <<[prop |-> Head(css).prop, value |-> Head(css).value]>> \o declsOf(Tail(css))
       ELSE declsOf(Tail(css))

\* postcss().process(css): throws CssSyntaxError on a malformed text, otherwise
\* yields the declarations in document order
postcssProcess(css) ==
  IF \E i \in 1..Len(css) : css[i].kind = "bad"
  THEN [threw |-> TRUE, decls |-> <<>>]
  ELSE [threw |-> FALSE, decls |-> declsOf(css)]

(* ---- errors and results ---- *)

ServiceError(service, operation, originalError) ==
  [name |-> "ServiceError", code |-> "none", service |-> service,
   operation |-> operation, originalError |-> originalError]
McpError(code) ==
  [name |-> "McpError", code |-> code, service |-> "none",
   operation |-> "none", originalError |-> "none"]

Resolved(result) == [ok |-> TRUE, result |-> Some(result), error |-> None]
Rejected(error) == [ok |-> FALSE, result |-> None, error |-> Some(error)]

\* variant: the list is returned also when it is empty
NonEmptyOrUndefined_keepsEmpty(xs) == Some(xs)

\* xs.length > 0 ? xs : undefined
NonEmptyOrUndefined(xs) == IF Len(xs) > 0 THEN Some(xs) ELSE None

\* variant: a text without any non-whitespace character is answered with a hint
\* instead of being parsed
convertCSSToTailwind_shortCircuits(css, mode, pm, um) ==
  LET parsed == postcssProcess(css)
  IN  IF \A i \in 1..Len(css) : css[i].kind = "ws"
      THEN Resolved([tailwindClasses |-> <<>>, unsupportedStyles |-> None,
                     suggestions |-> Some(<< <<"P", "r", "o", "v", "i", "d", "e", " ", "s", "o", "m", "e", " ",
                                               "C", "S", "S", " ", "t", "o", " ", "c", "o", "n", "v", "e", "r", "t">> >>)])
      ELSE IF parsed.threw
           THEN Rejected(ServiceError("UtilityMapperService", "convertCSSToTailwind", "CssSyntaxError"))
           ELSE LET acc == walkDecls(EmptyAcc, parsed.decls, pm, um)
                IN  Resolved([tailwindClasses |-> join(acc.tailwindClasses, L_Space),
                              unsupportedStyles |-> NonEmptyOrUndefined(acc.unsupportedStyles),
                              suggestions |-> NonEmptyOrUndefined(acc.suggestions)])

\* variant: a parse failure is swallowed and the declarations read so far are converted
convertCSSToTailwind_swallowsParseError(css, mode, pm, um) ==
  LET acc == walkDecls(EmptyAcc, declsOf(css), pm, um)
  IN  Resolved([tailwindClasses |-> join(acc.tailwindClasses, L_Space),
                unsupportedStyles |-> NonEmptyOrUndefined(acc.unsupportedStyles),
                suggestions |-> NonEmptyOrUndefined(acc.suggestions)])

\* variant: an unsupported declaration is raised as an error
convertCSSToTailwind_rejectsUnsupported(css, mode, pm, um) ==
  LET parsed == postcssProcess(css)
      acc == walkDecls(EmptyAcc, parsed.decls, pm, um)
  IN  IF parsed.threw
      THEN Rejected(ServiceError("UtilityMapperService", "convertCSSToTailwind", "CssSyntaxError"))
      ELSE IF Len(acc.unsupportedStyles) > 0
           THEN Rejected(ServiceError("UtilityMapperService", "convertCSSToTailwind", "Unsupported"))
           ELSE Resolved([tailwindClasses |-> join(acc.tailwindClasses, L_Space),
                          unsupportedStyles |-> NonEmptyOrUndefined(acc.unsupportedStyles),
                          suggestions |-> NonEmptyOrUndefined(acc.suggestions)])

\* UtilityMapperService.convertCSSToTailwind after the parse step: the walk
\* and the assembly of the result, or the catch clause.  The mode parameter
\* is declared and never read.
convertCSSToTailwind(css, mode, pm, um) ==
  LET parsed == postcssProcess(css)
  IN  IF parsed.threw
      THEN Rejected(ServiceError("UtilityMapperService", "convertCSSToTailwind", "CssSyntaxError"))
      ELSE LET acc == walkDecls(EmptyAcc, parsed.decls, pm, um)
           IN  Resolved([tailwindClasses |-> join(acc.tailwindClasses, L_Space),
                         unsupportedStyles |-> NonEmptyOrUndefined(acc.unsupportedStyles),
                         suggestions |-> NonEmptyOrUndefined(acc.suggestions)])

(* ---- ConversionService (its source file is not part of the sources; ---- *)
(* ---- modelled from sections 4.3-4.5 and 7 of the specification)     ---- *)

L_ClassAttrOpen == <<"c", "l", "a", "s", "s", "=", "\"">>
L_Quote == <<"\"">>
L_ComponentOpen == <<".", "c", "o", "m", "p", "o", "n", "e", "n", "t", " ", "{", "\n", " ", " ", "@", "a", "p", "p", "l", "y", " ">>
L_ComponentClose == <<";", "\n", "}">>
L_ProvideCss == <<"P", "r", "o", "v", "i", "d", "e", " ", "s", "o", "m", "e", " ", "C", "S", "S", " ", "t", "o", " ", "c", "o", "n", "v", "e", "r", "t">>

\* variant: only the empty text is taken as blank (no trim)
IsBlank_emptyOnly(css) == css = <<>>

\* css is empty or all-whitespace
IsBlank(css) == \A i \in 1..Len(css) : css[i].kind = "ws"

\* OutputFormatter.format
formatOutput(matchedClasses, mode) ==
  LET joined == join(matchedClasses, L_Space)
  IN  CASE mode = "inline" -> L_ClassAttrOpen \o joined \o L_Quote
        [] mode = "component" -> L_ComponentOpen \o joined \o L_ComponentClose
        [] OTHER -> joined

\* ConversionService.convertCSS: the outcome and the number of parser invocations.
\* The property table is the write-once table built at start-up.
convertCSS(params) ==
  IF IsBlank(params.css)
  THEN [parserCalls |-> 0,
        out |-> Resolved([tailwindClasses |-> <<>>, unsupportedStyles |-> None,
                          suggestions |-> Some(<<L_ProvideCss>>)])]
  ELSE LET parsed == postcssProcess(params.css)
       IN  IF parsed.threw
           THEN [parserCalls |-> 1,
                 out |-> Rejected(ServiceError("ConversionService", "convertCSS", "CssSyntaxError"))]
           ELSE LET outcome == walkDecls(EmptyAcc, parsed.decls,
                                         LoadedMaps.cssPropertyMap, LoadedMaps.utilityMap)
                IN  [parserCalls |-> 1,
                     out |-> Resolved([tailwindClasses |-> formatOutput(outcome.tailwindClasses, params.mode),
                                       unsupportedStyles |-> NonEmptyOrUndefined(outcome.unsupportedStyles),
                                       suggestions |-> NonEmptyOrUndefined(outcome.suggestions)])]

(* ---- TailwindCSSServer: the convert_css_to_tailwind tool ---- *)

NoMode == "undefined"
validModes == {"inline", "classes", "component"}

\* variant: 'component' is missing from the list of valid modes
validateConvertCSSParams_noComponent(args) ==
  IF ~(args.cssKind = "string" /\ args.css # <<>>)
  THEN [threw |-> TRUE, error |-> Some(McpError("InvalidParams")),
        params |-> [css |-> <<>>, mode |-> NoMode]]
  ELSE [threw |-> FALSE, error |-> None,
        params |-> [css |-> args.css,
                    mode |-> IF args.modeKind = "string" /\ args.mode # ""
                                /\ args.mode \in {"inline", "classes"}
                             THEN args.mode ELSE NoMode]]

\* variant: a mode outside the valid modes is rejected like a missing css
validateConvertCSSParams_rejectsUnknownMode(args) ==
  IF ~(args.cssKind = "string" /\ args.css # <<>>)
     \/ (args.modeKind = "string" /\ args.mode # "" /\ args.mode \notin validModes)
  THEN [threw |-> TRUE, error |-> Some(McpError("InvalidParams")),
        params |-> [css |-> <<>>, mode |-> NoMode]]
  ELSE [threw |-> FALSE, error |-> None,
        params |-> [css |-> args.css,
                    mode |-> IF args.modeKind = "string" /\ args.mode # ""
                             THEN args.mode ELSE NoMode]]

\* variant: the mode of the request is never copied into the parameters
validateConvertCSSParams_dropsMode(args) ==
  IF ~(args.cssKind = "string" /\ args.css # <<>>)
  THEN [threw |-> TRUE, error |-> Some(McpError("InvalidParams")),
        params |-> [css |-> <<>>, mode |-> NoMode]]
  ELSE [threw |-> FALSE, error |-> None, params |-> [css |-> args.css, mode |-> NoMode]]

\* variant: only the type of css is checked, so the empty string passes
validateConvertCSSParams_acceptsEmpty(args) ==
  IF ~(args.cssKind = "string")
  THEN [threw |-> TRUE, error |-> Some(McpError("InvalidParams")),
        params |-> [css |-> <<>>, mode |-> NoMode]]
  ELSE [threw |-> FALSE, error |-> None,
        params |-> [css |-> args.css,
                    mode |-> IF args.modeKind = "string" /\ args.mode # ""
                                /\ args.mode \in validModes
                             THEN args.mode ELSE NoMode]]

\* validateConvertCSSParams: rejects a missing, non-string or empty css;
\* keeps the mode only when it is one of the valid modes
validateConvertCSSParams(args) ==
  IF ~(args.cssKind = "string" /\ args.css # <<>>)
  THEN [threw |-> TRUE, error |-> Some(McpError("InvalidParams")),
        params |-> [css |-> <<>>, mode |-> NoMode]]
  ELSE [threw |-> FALSE, error |-> None,
        params |-> [css |-> args.css,
                    mode |-> IF args.modeKind = "string" /\ args.mode # ""
                                /\ args.mode \in validModes
                             THEN args.mode ELSE NoMode]]

\* handleServiceError: an McpError is rethrown, anything else becomes InternalError
handleServiceError(error) ==
  IF error.name = "McpError" THEN error ELSE McpError("InternalError")

(* ---- inputs ---- *)

V_1rem == <<"1", "r", "e", "m">>
V_1_75rem == <<"1", ".", "7", "5", "r", "e", "m">>
V_spaced == <<"1", ".", "5", "r", "e", "m", " ", "\t", "2">>
V_inline_block == <<"i", "n", "l", "i", "n", "e", "-", "b", "l", "o", "c", "k">>
V_flex == <<"f", "l", "e", "x">>
V_red == <<"r", "e", "d">>
V_blur == <<"b", "l", "u", "r", "(", "5", "p", "x", ")">>

Declarations ==
  { DeclItem(P_margin, V_1rem),             \* exact value, property has an abbreviation
    DeclItem(P_margin, V_1_75rem),          \* value not in the table
    DeclItem(P_font_size, V_spaced),        \* value with a run of two whitespace characters
    DeclItem(P_display, V_flex),            \* exact value, property has no abbreviation
    DeclItem(P_display, V_inline_block),    \* in the table, no match, no abbreviation
    DeclItem(P_color, V_red),               \* not in the table, abbreviation exists
    DeclItem(P_filter, V_blur),             \* not in the table, no abbreviation
    DeclItem(P_margin, <<>>) }              \* empty value

CssItems == {WsItem(" "), RuleItem, BadItem} \cup Declarations
CssTexts == UNION { [1..n -> CssItems] : n \in 0..MaxCssLen }

Modes == {"classes", "inline", "component"}

\* the mode arguments of direct calls of the mapper (the parameter defaults to 'classes')
MapperModes == {"classes", "inline"}

\* the texts of calls that run concurrently: exact and arbitrary classes with a
\* suggestion; an unsupported declaration and an exact class; a malformed text
ConcurrentTexts ==
  { << DeclItem(P_margin, V_1rem), DeclItem(P_margin, V_1_75rem) >>,
    << DeclItem(P_filter, V_blur), DeclItem(P_display, V_flex) >>,
    << BadItem >> }

\* the arguments of a tool request: css and mode may be missing or of another type
NoArgs == [cssKind |-> "missing", css |-> <<>>, modeKind |-> "missing", mode |-> NoMode]
ToolArgs ==
  { [cssKind |-> "string", css |-> css, modeKind |-> "string", mode |-> m] :
      css \in CssTexts, m \in Modes \cup {"fancy", ""} }
  \cup { [cssKind |-> "string", css |-> css, modeKind |-> mk, mode |-> NoMode] :
      css \in CssTexts, mk \in {"missing", "other"} }
  \cup { [cssKind |-> ck, css |-> <<>>, modeKind |-> "string", mode |-> m] :
      ck \in {"missing", "other"}, m \in {"inline", "fancy"} }

(* ---- state ---- *)

(* ---- DocumentationScraperService: versions, cache keys, documents ---- *)
V3 == <<"v", "3">>
V4 == <<"v", "4">>
DEFAULT_VERSION == V4
versionConfigs == (V3 :> [docsBaseUrl |-> <<"h", "t", "t", "p", "s", ":", "/", "/", "v", "3", ".", "t", "a", "i", "l", "w", "i", "n", "d", "c", "s", "s", ".", "c", "o", "m">>]) @@
                  (V4 :> [docsBaseUrl |-> <<"h", "t", "t", "p", "s", ":", "/", "/", "t", "a", "i", "l", "w", "i", "n", "d", "c", "s", "s", ".", "c", "o", "m">>])

\* getVersionConfig(version?): version || DEFAULT_VERSION
getVersionConfig(version) ==
  LET v == IF version = None THEN DEFAULT_VERSION ELSE version[1]
  IN  versionConfigs[v]

\* `doc:${version}:${url}`
getCacheKey(url, version) == <<"d", "o", "c", ":">> \o version \o <<":">> \o url

\* String.prototype.split(sep) for a one-character separator
RECURSIVE split(_, _)
split(str, sep) ==
  IF \A i \in 1..Len(str) : str[i] # sep
  THEN <<str>>
  ELSE LET i == CHOOSE k \in 1..Len(str) : str[k] = sep /\ \A j \in 1..(k - 1) : str[j] # sep
       IN  <<SubSeq(str, 1, i - 1)>> \o split(SubSeq(str, i + 1, Len(str)), sep)

\* path.split('/').filter(part => part); parts.length > 1 ? parts[1] : 'general'
getCategoryFromPath(path) ==
  LET parts == SelectSeq(split(path, "/"), LAMBDA part : part # <<>>)
  IN  IF Len(parts) > 1 THEN parts[2] ELSE <<"g", "e", "n", "e", "r", "a", "l">>

\* default of the ttlMs parameter of isCacheExpired
DefaultTtlMs == 24 * 60 * 60 * 1000

\* variant: an entry exactly as old as the TTL already counts as expired
isCacheExpired_atTtl(item, ttlMs, dateNow) == dateNow - item.lastUpdated >= ttlMs

\* Date.now() - item.lastUpdated.getTime() > ttlMs
isCacheExpired(item, ttlMs, dateNow) == dateNow - item.lastUpdated > ttlMs

\* variant: a hit is not counted as a request
updateCacheStats_hitNotRequest(stats, isHit) ==
  [cacheRequests |-> IF isHit THEN stats.cacheRequests ELSE stats.cacheRequests + 1,
   cacheHits |-> IF isHit THEN stats.cacheHits + 1 ELSE stats.cacheHits]

\* updateCacheStats(isHit) on the two counters
updateCacheStats(stats, isHit) ==
  [cacheRequests |-> stats.cacheRequests + 1,
   cacheHits |-> IF isHit THEN stats.cacheHits + 1 ELSE stats.cacheHits]

\* getCacheStats(): hitRate as the pair numerator / denominator (0 / 1 for 0)
getCacheStats ==
  [totalEntries |-> Cardinality(DOMAIN cache),
   hitRate |-> IF cacheRequests > 0 THEN <<cacheHits, cacheRequests>> ELSE <<0, 1>>,
   lastCleanup |-> lastCleanup]

\* arguments and HTTP outcomes explored
ScrapeRequests ==
  {[path |-> <<"/", "d", "o", "c", "s", "/", "p", "a", "d", "d", "i", "n", "g">>, version |-> None],
   [path |-> <<"/", "d", "o", "c", "s", "/", "p", "a", "d", "d", "i", "n", "g">>, version |-> Some(V4)],
   [path |-> <<"/", "d", "o", "c", "s", "/", "p", "a", "d", "d", "i", "n", "g">>, version |-> Some(V3)],
   [path |-> <<"/", "d", "o", "c", "s">>, version |-> None]}
Responses == {[data |-> <<"<", "p", ">">>, contentType |-> "text/html", status |-> 200]}
Causes == {"Request failed with status code 404", "timeout of 15000ms exceeded"}

\* no initializeAll() / cleanupAll() call in progress
IdleRegistryCall == [op |-> "none", status |-> "idle", promises |-> EmptyMap, error |-> None]

IdleScrape ==
  [status |-> "idle", path |-> <<>>, version |-> <<>>, fullUrl |-> <<>>, cacheKey |-> <<>>,
   requests |-> 0,
   document |-> None, error |-> None]

ScraperInit ==
  /\ cache = EmptyMap
  /\ cacheHits = 0
  /\ cacheRequests = 0
  /\ lastCleanup = 0
  /\ now = 0
  /\ scrapes = [s \in 1..MaxScrapes |-> IdleScrape]
  /\ statCalls = [all |-> 0, hits |-> 0]
  /\ services = EmptyMap
  /\ registryCall = IdleRegistryCall

IdleCall ==
  [status |-> "idle", api |-> "none", args |-> NoArgs, css |-> <<>>, mode |-> NoMode,
   parserCalls |-> 0, pm |-> EmptyMap, um |-> EmptyMap,
   result |-> None, error |-> None]

Init ==
  /\ utilityMap = EmptyMap
  /\ cssPropertyMap = EmptyMap
  /\ colorMap = EmptyMap
  /\ initPending = 0
  /\ calls = [c \in {1} |-> IdleCall]
  /\ ScraperInit

\* number of loadUtilityMappings runs since the maps were last cleared
LoadCount == IF MapHas(cssPropertyMap, P_margin) THEN Len(cssPropertyMap[P_margin]) \div 5 ELSE 0

(* ---- actions ---- *)

\* initialize(): loadUtilityMappings runs synchronously in the call, then the
\* method suspends at its first await
Initialize ==
  /\ LET maps == loadUtilityMappings([utilityMap |-> utilityMap, cssPropertyMap |-> cssPropertyMap])
     IN  /\ utilityMap' = maps.utilityMap
         /\ cssPropertyMap' = maps.cssPropertyMap
  /\ initPending' = initPending + 1
  /\ UNCHANGED <<colorMap, calls>>
  /\ UNCHANGED scraperVars
  /\ UNCHANGED registryVars

\* initialize() resumed: loadColorMappings
InitializeResume ==
  /\ initPending > 0
  /\ colorMap' = loadColorMappings(colorMap)
  /\ initPending' = initPending - 1
  /\ UNCHANGED <<utilityMap, cssPropertyMap, calls>>
  /\ UNCHANGED scraperVars
  /\ UNCHANGED registryVars

\* variant: cleanup() forgets colorMap.clear()
Cleanup_keepsColors ==
  /\ utilityMap' = EmptyMap
  /\ cssPropertyMap' = EmptyMap
  /\ UNCHANGED <<colorMap, initPending, calls>>
  /\ UNCHANGED scraperVars
  /\ UNCHANGED registryVars

\* cleanup(): clears the three maps
Cleanup ==
  /\ utilityMap' = EmptyMap
  /\ cssPropertyMap' = EmptyMap
  /\ colorMap' = EmptyMap
  /\ UNCHANGED <<initPending, calls>>
  /\ UNCHANGED scraperVars
  /\ UNCHANGED registryVars

\* convertCSSToTailwind(css, mode) called: suspended at `await postcss().process`
ConvertCSSToTailwindCall(c, css, mode) ==
  /\ calls[c].status = "idle"
  /\ calls' = [calls EXCEPT ![c] =
        [IdleCall EXCEPT !.status = "pending", !.api = "convertCSSToTailwind",
                         !.css = css, !.mode = mode]]
  /\ UNCHANGED <<utilityMap, cssPropertyMap, colorMap, initPending>>
  /\ UNCHANGED scraperVars
  /\ UNCHANGED registryVars

\* variant: the first class synthesized by a call is registered in the table
ConvertCSSToTailwindResume_memoizes(c) ==
  /\ calls[c].status = "pending"
  /\ calls[c].api = "convertCSSToTailwind"
  /\ LET out == convertCSSToTailwind(calls[c].css, calls[c].mode, cssPropertyMap, utilityMap)
         synthesized ==
           SelectSeq(declsOf(calls[c].css),
                     LAMBDA d : /\ MapHas(cssPropertyMap, d.prop)
                                /\ findBestUtilityMatch(cssPropertyMap, utilityMap, d.prop, d.value) = None
                                /\ createArbitraryUtility(d.prop, d.value) # None)
         maps == IF out.ok /\ synthesized # <<>>
                 THEN addUtility([utilityMap |-> utilityMap, cssPropertyMap |-> cssPropertyMap],
                                 createArbitraryUtility(synthesized[1].prop, synthesized[1].value)[1],
                                 synthesized[1].prop, synthesized[1].value, "arbitrary")
                 ELSE [utilityMap |-> utilityMap, cssPropertyMap |-> cssPropertyMap]
     IN  /\ calls' = [calls EXCEPT ![c] =
               [@ EXCEPT !.status = IF out.ok THEN "resolved" ELSE "rejected",
                         !.parserCalls = @ + 1,
                         !.pm = cssPropertyMap, !.um = utilityMap,
                         !.result = out.result, !.error = out.error]]
         /\ utilityMap' = maps.utilityMap
         /\ cssPropertyMap' = maps.cssPropertyMap
  /\ UNCHANGED <<colorMap, initPending>>
  /\ UNCHANGED scraperVars
  /\ UNCHANGED registryVars

\* convertCSSToTailwind resumed: parse outcome, walk, result or ServiceError
ConvertCSSToTailwindResume(c) ==
  /\ calls[c].status = "pending"
  /\ calls[c].api = "convertCSSToTailwind"
  /\ LET out == convertCSSToTailwind(calls[c].css, calls[c].mode, cssPropertyMap, utilityMap)
     IN  calls' = [calls EXCEPT ![c] =
           [@ EXCEPT !.status = IF out.ok THEN "resolved" ELSE "rejected",
                     !.parserCalls = @ + 1,
                     !.pm = cssPropertyMap, !.um = utilityMap,
                     !.result = out.result, !.error = out.error]]
  /\ UNCHANGED <<utilityMap, cssPropertyMap, colorMap, initPending>>
  /\ UNCHANGED scraperVars
  /\ UNCHANGED registryVars

\* ConversionService.convertCSS(params) called
ConvertCSSCall(c, css, mode) ==
  /\ calls[c].status = "idle"
  /\ calls' = [calls EXCEPT ![c] =
        [IdleCall EXCEPT !.status = "pending", !.api = "convertCSS",
                         !.css = css, !.mode = mode]]
  /\ UNCHANGED <<utilityMap, cssPropertyMap, colorMap, initPending>>
  /\ UNCHANGED scraperVars
  /\ UNCHANGED registryVars

\* ConversionService.convertCSS settles
ConvertCSSResume(c) ==
  /\ calls[c].status = "pending"
  /\ calls[c].api = "convertCSS"
  /\ LET r == convertCSS([css |-> calls[c].css, mode |-> calls[c].mode])
     IN  calls' = [calls EXCEPT ![c] =
           [@ EXCEPT !.status = IF r.out.ok THEN "resolved" ELSE "rejected",
                     !.parserCalls = @ + r.parserCalls,
                     !.pm = LoadedMaps.cssPropertyMap, !.um = LoadedMaps.utilityMap,
                     !.result = r.out.result, !.error = r.out.error]]
  /\ UNCHANGED <<utilityMap, cssPropertyMap, colorMap, initPending>>
  /\ UNCHANGED scraperVars
  /\ UNCHANGED registryVars

\* handleConvertCSSToTailwind(args): validation, then the call of convertCSS
HandleConvertCSSToTailwindCall(c, args) ==
  /\ calls[c].status = "idle"
  /\ LET v == validateConvertCSSParams(args)
     IN  calls' = [calls EXCEPT ![c] =
           IF v.threw
           THEN [IdleCall EXCEPT !.status = "rejected", !.api = "tool", !.args = args,
                                 !.error = Some(handleServiceError(v.error[1]))]
           ELSE [IdleCall EXCEPT !.status = "pending", !.api = "tool", !.args = args,
                                 !.css = v.params.css, !.mode = v.params.mode]]
  /\ UNCHANGED <<utilityMap, cssPropertyMap, colorMap, initPending>>
  /\ UNCHANGED scraperVars
  /\ UNCHANGED registryVars

\* handleConvertCSSToTailwind resumed: success response or handleServiceError
HandleConvertCSSToTailwindResume(c) ==
  /\ calls[c].status = "pending"
  /\ calls[c].api = "tool"
  /\ LET r == convertCSS([css |-> calls[c].css, mode |-> calls[c].mode])
     IN  calls' = [calls EXCEPT ![c] =
           [@ EXCEPT !.status = IF r.out.ok THEN "resolved" ELSE "rejected",
                     !.parserCalls = @ + r.parserCalls,
                     !.pm = LoadedMaps.cssPropertyMap, !.um = LoadedMaps.utilityMap,
                     !.result = r.out.result,
                     !.error = IF r.out.ok THEN None
                               ELSE Some(handleServiceError(r.out.error[1]))]]
  /\ UNCHANGED <<utilityMap, cssPropertyMap, colorMap, initPending>>
  /\ UNCHANGED scraperVars
  /\ UNCHANGED registryVars

\* the caller has consumed the outcome of call c
Return(c) ==
  /\ calls[c].status \in {"resolved", "rejected"}
  /\ calls' = [calls EXCEPT ![c] = IdleCall]
  /\ UNCHANGED <<utilityMap, cssPropertyMap, colorMap, initPending>>
  /\ UNCHANGED scraperVars
  /\ UNCHANGED registryVars

Next ==
  \/ (LoadCount < MaxInits /\ initPending < MaxInits /\ Initialize)
  \/ InitializeResume
  \/ Cleanup
  \/ \E c \in DOMAIN calls :
        /\ calls[c].status = "idle"
        /\ \E css \in CssTexts, mode \in MapperModes :
              ConvertCSSToTailwindCall(c, css, mode)
  \/ \E c \in DOMAIN calls : ConvertCSSToTailwindResume(c)
  \/ \E c \in DOMAIN calls : Return(c)

Spec == Init /\ [][Next]_vars

\* UtilityMapperService with several conversion calls in flight and repeated
\* initialize()
ConcurrentInit ==
  /\ utilityMap = EmptyMap
  /\ cssPropertyMap = EmptyMap
  /\ colorMap = EmptyMap
  /\ initPending = 0
  /\ calls = [c \in 1..MaxCalls |-> IdleCall]
  /\ ScraperInit

ConcurrentNext ==
  \/ (LoadCount < MaxReloads /\ initPending < MaxInits /\ Initialize)
  \/ InitializeResume
  \/ Cleanup
  \/ \E c \in DOMAIN calls :
        /\ calls[c].status = "idle"
        /\ \E css \in ConcurrentTexts : ConvertCSSToTailwindCall(c, css, "classes")
  \/ \E c \in DOMAIN calls : ConvertCSSToTailwindResume(c)
  \/ \E c \in DOMAIN calls : Return(c)

ConcurrentSpec == ConcurrentInit /\ [][ConcurrentNext]_vars

\* UtilityMapperService with conversions started on an initialized service
\* only; initialize() and cleanup() run while a call is suspended
InterleavedNext ==
  \/ (LoadCount < MaxInits /\ initPending < MaxInits /\ Initialize)
  \/ InitializeResume
  \/ Cleanup
  \/ \E c \in DOMAIN calls :
        /\ calls[c].status = "idle"
        /\ LoadCount >= 1
        /\ \E css \in ConcurrentTexts : ConvertCSSToTailwindCall(c, css, "classes")
  \/ \E c \in DOMAIN calls : ConvertCSSToTailwindResume(c)
  \/ \E c \in DOMAIN calls : Return(c)

InterleavedSpec == ConcurrentInit /\ [][InterleavedNext]_vars

\* ConversionService and the convert_css_to_tailwind tool in front of it
ConversionNext ==
  \/ \E c \in DOMAIN calls :
        /\ calls[c].status = "idle"
        /\ \E css \in CssTexts, mode \in Modes \cup {NoMode, "fancy"} : ConvertCSSCall(c, css, mode)
  \/ \E c \in DOMAIN calls : ConvertCSSResume(c)
  \/ \E c \in DOMAIN calls :
        /\ calls[c].status = "idle"
        /\ \E args \in ToolArgs : HandleConvertCSSToTailwindCall(c, args)
  \/ \E c \in DOMAIN calls : HandleConvertCSSToTailwindResume(c)
  \/ \E c \in DOMAIN calls : Return(c)

ConversionSpec == Init /\ [][ConversionNext]_vars

(* ---- DocumentationScraperService: the page cache ---- *)

\* scrapePage(path, version) called: the cache look-up runs synchronously; a
\* fresh entry settles the call, otherwise it suspends at `await axios.get`
ScrapePageCall(s, path, version) ==
  /\ scrapes[s].status = "idle"
  /\ LET v == IF version = None THEN DEFAULT_VERSION ELSE version[1]
         fullUrl == getVersionConfig(Some(v)).docsBaseUrl \o path
         cacheKey == getCacheKey(fullUrl, v)
         counted == updateCacheStats([cacheRequests |-> cacheRequests, cacheHits |-> cacheHits], FALSE)
         cached == MapGet(cache, cacheKey)
         hit == cached # None /\ ~isCacheExpired(cached[1], DefaultTtlMs, now)
         stats == IF hit THEN updateCacheStats(counted, TRUE) ELSE counted
     IN  /\ scrapes' = [scrapes EXCEPT ![s] =
               [IdleScrape EXCEPT !.status = IF hit THEN "resolved" ELSE "fetching",
                                  !.path = path, !.version = v,
                                  !.fullUrl = fullUrl, !.cacheKey = cacheKey,
                                  !.requests = IF hit THEN 0 ELSE 1,
                                  !.document = IF hit THEN cached ELSE None]]
         /\ cacheRequests' = stats.cacheRequests
         /\ cacheHits' = stats.cacheHits
         /\ statCalls' = IF hit THEN [all |-> statCalls.all + 2, hits |-> statCalls.hits + 1]
                                 ELSE [all |-> statCalls.all + 1, hits |-> statCalls.hits]
  /\ UNCHANGED <<cache, lastCleanup, now>>
  /\ UNCHANGED mapperVars
  /\ UNCHANGED registryVars

\* the HTTP request of call s succeeds: the document is built and cached
ScrapePageFulfilled(s, response) ==
  /\ scrapes[s].status = "fetching"
  /\ LET document == [id |-> s,   \* object identity: the call that created the object
                      url |-> scrapes[s].fullUrl,
                      content |-> response.data,
                      lastUpdated |-> now,
                      category |-> getCategoryFromPath(scrapes[s].path),
                      metadata |-> [contentType |-> response.contentType,
                                    statusCode |-> response.status]]
     IN  /\ cache' = MapSet(cache, scrapes[s].cacheKey, document)
         /\ scrapes' = [scrapes EXCEPT ![s] =
               [@ EXCEPT !.status = "resolved", !.document = Some(document)]]
  /\ UNCHANGED <<cacheHits, cacheRequests, lastCleanup, now, statCalls>>
  /\ UNCHANGED mapperVars
  /\ UNCHANGED registryVars

\* variant: a failed request evicts the entry of the page
ScrapePageFailed_evicts(s, cause) ==
  /\ scrapes[s].status = "fetching"
  /\ scrapes' = [scrapes EXCEPT ![s] =
        [@ EXCEPT !.status = "rejected",
                  !.error = Some(ServiceError("DocumentationScraperService", "scrapePage", cause))]]
  /\ cache' = [k \in DOMAIN cache \ {scrapes[s].cacheKey} |-> cache[k]]
  /\ UNCHANGED <<cacheHits, cacheRequests, lastCleanup, now, statCalls>>
  /\ UNCHANGED mapperVars
  /\ UNCHANGED registryVars

\* the HTTP request of call s fails: ServiceError wrapping the cause
ScrapePageFailed(s, cause) ==
  /\ scrapes[s].status = "fetching"
  /\ scrapes' = [scrapes EXCEPT ![s] =
        [@ EXCEPT !.status = "rejected",
                  !.error = Some(ServiceError("DocumentationScraperService", "scrapePage", cause))]]
  /\ UNCHANGED <<cache, cacheHits, cacheRequests, lastCleanup, now, statCalls>>
  /\ UNCHANGED mapperVars
  /\ UNCHANGED registryVars

\* CachedService.cleanup(): cache.clear()
CacheCleanup ==
  /\ cache' = EmptyMap
  /\ UNCHANGED <<cacheHits, cacheRequests, lastCleanup, now, scrapes, statCalls>>
  /\ UNCHANGED mapperVars
  /\ UNCHANGED registryVars

\* variant: clearCache() forgets to reset cacheHits
ClearCache_keepsHits ==
  /\ cache' = EmptyMap
  /\ cacheRequests' = 0
  /\ lastCleanup' = now
  /\ statCalls' = [all |-> 0, hits |-> 0]
  /\ UNCHANGED <<cacheHits, now, scrapes>>
  /\ UNCHANGED mapperVars
  /\ UNCHANGED registryVars

\* CachedService.clearCache()
ClearCache ==
  /\ cache' = EmptyMap
  /\ cacheHits' = 0
  /\ cacheRequests' = 0
  /\ lastCleanup' = now
  /\ statCalls' = [all |-> 0, hits |-> 0]
  /\ UNCHANGED <<now, scrapes>>
  /\ UNCHANGED mapperVars
  /\ UNCHANGED registryVars

\* the clock advances by d milliseconds
Tick(d) ==
  /\ now' = now + d
  /\ UNCHANGED <<cache, cacheHits, cacheRequests, lastCleanup, scrapes, statCalls>>
  /\ UNCHANGED mapperVars
  /\ UNCHANGED registryVars

\* clock advances made so far; the clock advances by one TTL, then by 1 ms,
\* and so on, so that entries get exactly as old as the TTL and 1 ms older
TickCount == (now \div DefaultTtlMs) + (now % DefaultTtlMs)
TickSize == IF TickCount % 2 = 0 THEN DefaultTtlMs ELSE 1

ScraperNext ==
  \/ \E s \in DOMAIN scrapes :
        /\ scrapes[s].status = "idle"
        /\ \A t \in 1..(s - 1) : scrapes[t].status # "idle"
        /\ \E r \in ScrapeRequests : ScrapePageCall(s, r.path, r.version)
  \/ \E s \in DOMAIN scrapes, response \in Responses : ScrapePageFulfilled(s, response)
  \/ \E s \in DOMAIN scrapes, cause \in Causes : ScrapePageFailed(s, cause)
  \/ CacheCleanup
  \/ ClearCache
  \/ (TickCount < MaxTicks /\ Tick(TickSize))

ScraperSpec == Init /\ [][ScraperNext]_vars

(* ---- CachedService through the operations of TestCachedService ---- *)
TestKeys == {<<"k", "e", "y", "1">>, <<"k", "e", "y", "2">>, <<"k", "e", "y", "3">>}
TestContents == {<<"c", "o", "n", "t", "e", "n", "t", "1">>}

\* testMethod(key, content): builds a document and caches it under key
TestMethod(key, content) ==
  /\ LET document == [url |-> <<"t", "e", "s", "t", ":", "/", "/", "e", "x", "a", "m", "p", "l", "e", ".", "c", "o", "m", "/">> \o key,
                      content |-> content,
                      lastUpdated |-> now,
                      category |-> <<"t", "e", "s", "t">>,
                      metadata |-> [test |-> TRUE]]
     IN  cache' = MapSet(cache, key, document)
  /\ UNCHANGED <<cacheHits, cacheRequests, lastCleanup, now, scrapes, statCalls>>
  /\ UNCHANGED mapperVars
  /\ UNCHANGED registryVars

\* testCacheHit(key): updateCacheStats(cache.get(key) !== undefined)
TestCacheHit(key) ==
  /\ LET isHit == MapGet(cache, key) # None
         stats == updateCacheStats([cacheRequests |-> cacheRequests, cacheHits |-> cacheHits], isHit)
     IN  /\ cacheRequests' = stats.cacheRequests
         /\ cacheHits' = stats.cacheHits
         /\ statCalls' = [all |-> statCalls.all + 1,
                          hits |-> IF isHit THEN statCalls.hits + 1 ELSE statCalls.hits]
  /\ UNCHANGED <<cache, lastCleanup, now, scrapes>>
  /\ UNCHANGED mapperVars
  /\ UNCHANGED registryVars

CacheNext ==
  \/ \E key \in TestKeys, content \in TestContents : TestMethod(key, content)
  \/ (statCalls.all < MaxProbes /\ \E key \in TestKeys : TestCacheHit(key))
  \/ CacheCleanup
  \/ ClearCache
  \/ (TickCount < MaxTicks /\ Tick(TickSize))

CacheSpec == Init /\ [][CacheNext]_vars

(* ---- ServiceRegistry ---- *)

ServiceNames == 1..MaxServices

\* a service as TestService: whether its initialize() / cleanup() fails, and the
\* flags it sets when they succeed
NewService(failInitialize, failCleanup) ==
  [shouldFailInitialize |-> failInitialize, shouldFailCleanup |-> failCleanup,
   initializeCalled |-> FALSE, cleanupCalled |-> FALSE]

\* register(name, service): services.set(name, service)
Register(name, service) ==
  /\ services' = MapSet(services, name, service)
  /\ UNCHANGED registryCall
  /\ UNCHANGED mapperVars
  /\ UNCHANGED scraperVars

\* initializeAll() called: initialize() is invoked on every registered service;
\* Promise.all of no promise is fulfilled
InitializeAllCall ==
  /\ registryCall.status = "idle"
  /\ registryCall' = [op |-> "initializeAll",
                      status |-> IF DOMAIN services = {} THEN "resolved" ELSE "pending",
                      promises |-> [n \in DOMAIN services |-> "pending"],
                      error |-> None]
  /\ UNCHANGED services
  /\ UNCHANGED mapperVars
  /\ UNCHANGED scraperVars

\* variant: the catch handler of initializeAll() logs and does not rethrow
InitializeSettle_swallows(n) ==
  /\ registryCall.op = "initializeAll"
  /\ n \in DOMAIN registryCall.promises
  /\ registryCall.promises[n] = "pending"
  /\ LET failed == services[n].shouldFailInitialize
         promises == [registryCall.promises EXCEPT ![n] = "fulfilled"]
     IN  /\ services' = IF failed THEN services
                        ELSE [services EXCEPT ![n].initializeCalled = TRUE]
         /\ registryCall' =
              [registryCall EXCEPT
                 !.promises = promises,
                 !.status = IF registryCall.status = "pending"
                               /\ \A m \in DOMAIN promises : promises[m] = "fulfilled"
                            THEN "resolved" ELSE @]
  /\ UNCHANGED mapperVars
  /\ UNCHANGED scraperVars

\* the initialize() of service n settles: the catch handler rethrows, so the
\* first rejection rejects Promise.all; the last fulfilment fulfils it
InitializeSettle(n) ==
  /\ registryCall.op = "initializeAll"
  /\ n \in DOMAIN registryCall.promises
  /\ registryCall.promises[n] = "pending"
  /\ LET failed == services[n].shouldFailInitialize
         promises == [registryCall.promises EXCEPT ![n] = IF failed THEN "rejected" ELSE "fulfilled"]
     IN  /\ services' = IF failed THEN services
                        ELSE [services EXCEPT ![n].initializeCalled = TRUE]
         /\ registryCall' =
              [registryCall EXCEPT
                 !.promises = promises,
                 !.status = IF registryCall.status # "pending" THEN @
                            ELSE IF failed THEN "rejected"
                            ELSE IF \A m \in DOMAIN promises : promises[m] = "fulfilled"
                                 THEN "resolved" ELSE @,
                 !.error = IF registryCall.status = "pending" /\ failed
                           THEN Some([message |-> "Initialize failed", service |-> n])
                           ELSE @]
  /\ UNCHANGED mapperVars
  /\ UNCHANGED scraperVars

\* cleanupAll() called: cleanup() is invoked on every registered service;
\* Promise.allSettled of no promise is fulfilled
CleanupAllCall ==
  /\ registryCall.status = "idle"
  /\ registryCall' = [op |-> "cleanupAll",
                      status |-> IF DOMAIN services = {} THEN "resolved" ELSE "pending",
                      promises |-> [n \in DOMAIN services |-> "pending"],
                      error |-> None]
  /\ UNCHANGED services
  /\ UNCHANGED mapperVars
  /\ UNCHANGED scraperVars

\* variant: cleanupAll() awaits Promise.all of the cleanup() promises as they are
CleanupSettle_failsFast(n) ==
  /\ registryCall.op = "cleanupAll"
  /\ n \in DOMAIN registryCall.promises
  /\ registryCall.promises[n] = "pending"
  /\ LET failed == services[n].shouldFailCleanup
         promises == [registryCall.promises EXCEPT ![n] = IF failed THEN "rejected" ELSE "fulfilled"]
     IN  /\ services' = IF failed THEN services
                        ELSE [services EXCEPT ![n].cleanupCalled = TRUE]
         /\ registryCall' =
              [registryCall EXCEPT
                 !.promises = promises,
                 !.status = IF registryCall.status # "pending" THEN @
                            ELSE IF failed THEN "rejected"
                            ELSE IF \A m \in DOMAIN promises : promises[m] = "fulfilled"
                                 THEN "resolved" ELSE @,
                 !.error = IF registryCall.status = "pending" /\ failed
                           THEN Some([message |-> "Cleanup failed", service |-> n])
                           ELSE @]
  /\ UNCHANGED mapperVars
  /\ UNCHANGED scraperVars

\* the cleanup() of service n settles: a rejection is logged by the catch
\* handler, whose promise is fulfilled; Promise.allSettled is fulfilled when
\* every promise has settled
CleanupSettle(n) ==
  /\ registryCall.op = "cleanupAll"
  /\ n \in DOMAIN registryCall.promises
  /\ registryCall.promises[n] = "pending"
  /\ LET failed == services[n].shouldFailCleanup
         promises == [registryCall.promises EXCEPT ![n] = IF failed THEN "caught" ELSE "fulfilled"]
     IN  /\ services' = IF failed THEN services
                        ELSE [services EXCEPT ![n].cleanupCalled = TRUE]
         /\ registryCall' =
              [registryCall EXCEPT
                 !.promises = promises,
                 !.status = IF \A m \in DOMAIN promises : promises[m] # "pending"
                            THEN "resolved" ELSE @]
  /\ UNCHANGED mapperVars
  /\ UNCHANGED scraperVars

\* the caller has consumed the outcome and every service call has settled
RegistryReturn ==
  /\ registryCall.status \in {"resolved", "rejected"}
  /\ \A n \in DOMAIN registryCall.promises : registryCall.promises[n] # "pending"
  /\ registryCall' = IdleRegistryCall
  /\ UNCHANGED services
  /\ UNCHANGED mapperVars
  /\ UNCHANGED scraperVars

RegistryNext ==
  \/ (registryCall.status = "idle" /\
      \E name \in ServiceNames, failInitialize, failCleanup \in BOOLEAN :
         Register(name, NewService(failInitialize, failCleanup)))
  \/ InitializeAllCall
  \/ \E n \in ServiceNames : InitializeSettle(n)
  \/ CleanupAllCall
  \/ \E n \in ServiceNames : CleanupSettle(n)
  \/ RegistryReturn

RegistrySpec == Init /\ [][RegistryNext]_vars

(* ======================================================================= *)
(* Properties                                                              *)
(* ======================================================================= *)

OptList(o) == IF o = None THEN <<>> ELSE o[1]
Range(f) == { f[i] : i \in DOMAIN f }

\* a settled call of UtilityMapperService.convertCSSToTailwind that returned a result
MapperDone(c) == calls[c].api = "convertCSSToTailwind" /\ calls[c].status = "resolved"

\* the declarations of a CSS text, in document order
DeclsIn(css) == SelectSeq(css, LAMBDA it : it.kind = "decl")
ParserAccepts(css) == \A i \in 1..Len(css) : css[i].kind # "bad"

\* the pieces of a string between single spaces
FirstSpace(s) ==
  IF \E i \in 1..Len(s) : s[i] = " "
  THEN CHOOSE i \in 1..Len(s) : s[i] = " " /\ \A j \in 1..(i - 1) : s[j] # " "
  ELSE Len(s) + 1
RECURSIVE SplitPieces(_)
SplitPieces(s) ==
  LET k == FirstSpace(s)
  IN  <<SubSeq(s, 1, k - 1)>> \o (IF k > Len(s) THEN <<>> ELSE SplitPieces(SubSeq(s, k + 1, Len(s))))
SplitOnSpace(s) == IF s = <<>> THEN <<>> ELSE SplitPieces(s)

\* the table as the specification sees it: the (class, value) pairs of a property
RECURSIVE PairsOf(_, _)
PairsOf(ids, um) ==
  IF ids = <<>> THEN <<>>
  ELSE (IF Head(ids) \in DOMAIN um THEN um[Head(ids)].values ELSE <<>>) \o PairsOf(Tail(ids), um)
TablePairs(pm, um, p) == IF p \in DOMAIN pm THEN PairsOf(pm[p], um) ELSE <<>>
InTable(pm, p) == p \in DOMAIN pm /\ pm[p] # <<>>
ExactIndexes(pm, um, d) ==
  LET T == TablePairs(pm, um, d.prop)
  IN  { i \in 1..Len(T) : T[i].value = d.value }
HasExact(pm, um, d) == ExactIndexes(pm, um, d) # {}
FirstExactClass(pm, um, d) ==
  LET T == TablePairs(pm, um, d.prop)
      X == ExactIndexes(pm, um, d)
  IN  T[CHOOSE i \in X : \A j \in X : i <= j].class
HasAbbreviation(p) == p \in DOMAIN propertyAbbreviations

\* the value with every maximal run of whitespace replaced by one underscore:
\* the characters kept are the non-whitespace ones and the first of each run
KeptIndexes(v) ==
  { i \in 1..Len(v) : v[i] \notin WhitespaceChars \/ i = 1 \/ v[i - 1] \notin WhitespaceChars }
CleanedValue(v) ==
  LET K == KeptIndexes(v)
      nth(j) == CHOOSE i \in K : Cardinality({k \in K : k <= i}) = j
  IN  [j \in 1..Cardinality(K) |-> IF v[nth(j)] \in WhitespaceChars THEN "_" ELSE v[nth(j)]]
BracketClass(d) ==
  propertyAbbreviations[d.prop] \o <<"-", "[">> \o CleanedValue(d.value) \o <<"]">>

\* how the specification classifies a declaration against a table
IsExact(pm, um, d) == InTable(pm, d.prop) /\ HasExact(pm, um, d)
IsArbitrary(pm, um, d) == InTable(pm, d.prop) /\ ~HasExact(pm, um, d) /\ HasAbbreviation(d.prop)
IsUnsupported(pm, um, d) ==
  \/ ~InTable(pm, d.prop)
  \/ InTable(pm, d.prop) /\ ~HasExact(pm, um, d) /\ ~HasAbbreviation(d.prop)

\* per call: its declarations, the classes of its result, and the position in the
\* class list of the class of the i-th declaration
CallDecls(c) == DeclsIn(calls[c].css)
ClassList(c) == SplitOnSpace(calls[c].result[1].tailwindClasses)
UnsupportedList(c) == OptList(calls[c].result[1].unsupportedStyles)
SuggestionList(c) == OptList(calls[c].result[1].suggestions)
ClassPos(c, i) ==
  Cardinality({ j \in 1..i : ~IsUnsupported(calls[c].pm, calls[c].um, CallDecls(c)[j]) })
ClassOfDecl(c, i, cls) ==
  /\ ClassPos(c, i) \in 1..Len(ClassList(c))
  /\ ClassList(c)[ClassPos(c, i)] = cls

\* C1: every declaration of a converted text is counted exactly once: the number
\* of classes plus the number of unsupported entries is the number of declarations.
C1_EveryDeclarationCounted ==
  \A c \in DOMAIN calls :
    MapperDone(c) =>
      Len(ClassList(c)) + Len(UnsupportedList(c)) = Len(CallDecls(c))

C1_Witness ==
  \E c \in DOMAIN calls :
    /\ MapperDone(c)
    /\ Len(CallDecls(c)) = 2
    /\ Len(ClassList(c)) = 1
    /\ Len(UnsupportedList(c)) = 1

\* C2: a declaration whose value is in the property's table pairs gets the class of
\* the first matching pair, never the bracketed form, also when the property has
\* an abbreviation.
C2_ExactMatchPrecedence ==
  \A c \in DOMAIN calls :
    MapperDone(c) =>
      \A i \in 1..Len(CallDecls(c)) :
        LET d == CallDecls(c)[i]
        IN  IsExact(calls[c].pm, calls[c].um, d) =>
              /\ ClassOfDecl(c, i, FirstExactClass(calls[c].pm, calls[c].um, d))
              /\ HasAbbreviation(d.prop) => BracketClass(d) \notin Range(ClassList(c))

C2_Witness ==
  \E c \in DOMAIN calls :
    /\ MapperDone(c)
    /\ \E i \in 1..Len(CallDecls(c)) :
         /\ CallDecls(c)[i].prop = P_margin
         /\ CallDecls(c)[i].value = V_1rem
         /\ IsExact(calls[c].pm, calls[c].um, CallDecls(c)[i])
         /\ ClassOfDecl(c, i, <<"m", "-", "4">>)

\* C3: a declaration whose property is in the table and has an abbreviation, and
\* whose value has no exact pair, gets the class <abbrev>-[<cleaned value>], which
\* contains no whitespace.
C3_ArbitraryValueSynthesis ==
  \A c \in DOMAIN calls :
    MapperDone(c) =>
      \A i \in 1..Len(CallDecls(c)) :
        LET d == CallDecls(c)[i]
        IN  IsArbitrary(calls[c].pm, calls[c].um, d) =>
              /\ ClassOfDecl(c, i, BracketClass(d))
              /\ \A k \in 1..Len(BracketClass(d)) : BracketClass(d)[k] \notin WhitespaceChars

C3_Witness ==
  \E c \in DOMAIN calls :
    /\ MapperDone(c)
    /\ \E i \in 1..Len(CallDecls(c)) :
         /\ CallDecls(c)[i].prop = P_font_size
         /\ CallDecls(c)[i].value = V_spaced
         /\ IsArbitrary(calls[c].pm, calls[c].um, CallDecls(c)[i])
         /\ ClassOfDecl(c, i, <<"t", "e", "x", "t", "-", "[", "1", ".", "5", "r", "e", "m", "_", "2", "]">>)

\* C4: the unsupported entries are exactly the strings '<property>: <value>' of the
\* declarations whose property is not in the table, or is in the table with no
\* exact pair and no abbreviation, and these declarations contribute no class.
UnsupportedEntries(c) ==
  LET U == SelectSeq(CallDecls(c), LAMBDA d : IsUnsupported(calls[c].pm, calls[c].um, d))
  IN  [i \in 1..Len(U) |-> U[i].prop \o <<":", " ">> \o U[i].value]

C4_UnsupportedExactly ==
  \A c \in DOMAIN calls :
    MapperDone(c) =>
      /\ UnsupportedList(c) = UnsupportedEntries(c)
      /\ Len(ClassList(c)) = Len(CallDecls(c)) - Len(UnsupportedEntries(c))

C4_Witness ==
  \E c \in DOMAIN calls :
    /\ MapperDone(c)
    /\ InTable(calls[c].pm, P_display)
    /\ UnsupportedList(c) = << P_display \o <<":", " ">> \o V_inline_block,
                               P_color \o <<":", " ">> \o V_red >>
    /\ ClassList(c) = <<>>

\* the classes the specification expects for a call, in declaration order
ExpectedClassesFor(css, pm, um) ==
  LET D == SelectSeq(DeclsIn(css), LAMBDA d : ~IsUnsupported(pm, um, d))
  IN  [i \in 1..Len(D) |-> IF IsExact(pm, um, D[i]) THEN FirstExactClass(pm, um, D[i])
                           ELSE BracketClass(D[i])]
ExpectedClasses(c) == ExpectedClassesFor(calls[c].css, calls[c].pm, calls[c].um)

RECURSIVE SpaceJoined(_)
SpaceJoined(xs) ==
  IF xs = <<>> THEN <<>>
  ELSE IF Len(xs) = 1 THEN xs[1]
       ELSE SpaceJoined(SubSeq(xs, 1, Len(xs) - 1)) \o <<" ">> \o xs[Len(xs)]

\* C5: in the default 'classes' mode tailwindClasses is the single-space join of
\* the classes in the order of their declarations, without reordering or
\* deduplication, and is empty when no declaration produces a class.
C5_OrderPreserved ==
  \A c \in DOMAIN calls :
    (MapperDone(c) /\ calls[c].mode = "classes") =>
      calls[c].result[1].tailwindClasses = SpaceJoined(ExpectedClasses(c))

C5_Witness ==
  \E c \in DOMAIN calls :
    /\ MapperDone(c)
    /\ calls[c].mode = "classes"
    /\ CallDecls(c) = << [kind |-> "decl", prop |-> P_display, value |-> V_flex],
                         [kind |-> "decl", prop |-> P_margin, value |-> V_1rem] >>
    /\ calls[c].result[1].tailwindClasses = <<"f", "l", "e", "x", " ", "m", "-", "4">>

\* C6: there is exactly one suggestion 'Consider using <class> for <property>: <value>'
\* per declaration resolved through the arbitrary-value path, in declaration order,
\* and none for the others; their number is the number of bracketed classes.
ExpectedSuggestions(c) ==
  LET A == SelectSeq(CallDecls(c), LAMBDA d : IsArbitrary(calls[c].pm, calls[c].um, d))
  IN  [i \in 1..Len(A) |->
         <<"C", "o", "n", "s", "i", "d", "e", "r", " ", "u", "s", "i", "n", "g", " ">>
         \o BracketClass(A[i]) \o <<" ", "f", "o", "r", " ">>
         \o A[i].prop \o <<":", " ">> \o A[i].value]
IsBracketed(cls) == \E k \in 1..Len(cls) : cls[k] = "["

C6_SuggestionPairing ==
  \A c \in DOMAIN calls :
    MapperDone(c) =>
      /\ SuggestionList(c) = ExpectedSuggestions(c)
      /\ Len(SuggestionList(c)) =
           Cardinality({ i \in 1..Len(ClassList(c)) : IsBracketed(ClassList(c)[i]) })

C6_Witness ==
  \E c \in DOMAIN calls :
    /\ MapperDone(c)
    /\ Len(SuggestionList(c)) = 1
    /\ Len(UnsupportedList(c)) = 1
    /\ \E i \in 1..Len(CallDecls(c)) :
         /\ CallDecls(c)[i].value = V_1_75rem
         /\ IsArbitrary(calls[c].pm, calls[c].um, CallDecls(c)[i])

\* C7: when the parser rejects the text the call fails with one ServiceError that
\* carries the parser's error, returns no result, and the parser ran once.
C7_ParseErrorWrapped ==
  \A c \in DOMAIN calls :
    (/\ calls[c].api = "convertCSSToTailwind"
     /\ calls[c].status \in {"resolved", "rejected"}
     /\ ~ParserAccepts(calls[c].css)) =>
      /\ calls[c].status = "rejected"
      /\ calls[c].result = None
      /\ calls[c].error # None
      /\ calls[c].error[1].name = "ServiceError"
      /\ calls[c].error[1].service = "UtilityMapperService"
      /\ calls[c].error[1].operation = "convertCSSToTailwind"
      /\ calls[c].error[1].originalError = "CssSyntaxError"
      /\ calls[c].parserCalls = 1

C7_Witness ==
  \E c \in DOMAIN calls :
    /\ calls[c].api = "convertCSSToTailwind"
    /\ calls[c].status = "rejected"
    /\ ~ParserAccepts(calls[c].css)
    /\ Len(CallDecls(c)) > 0
    /\ calls[c].result = None

\* C8: every text the parser accepts yields a result and never an error, whatever
\* its properties and values.
C8_BestEffort ==
  \A c \in DOMAIN calls :
    (/\ calls[c].api = "convertCSSToTailwind"
     /\ calls[c].status \in {"resolved", "rejected"}
     /\ ParserAccepts(calls[c].css)) =>
      /\ calls[c].status = "resolved"
      /\ calls[c].result # None
      /\ calls[c].error = None

C8_Witness ==
  \E c \in DOMAIN calls :
    /\ MapperDone(c)
    /\ InTable(calls[c].pm, P_margin)
    /\ CallDecls(c) = << [kind |-> "decl", prop |-> P_margin, value |-> <<>>],
                         [kind |-> "decl", prop |-> P_filter, value |-> V_blur] >>

\* a call that reached ConversionService.convertCSS, directly or through the tool
ServiceCalled(c) ==
  \/ calls[c].api = "convertCSS"
  \/ calls[c].api = "tool" /\ calls[c].args.cssKind = "string" /\ calls[c].args.css # <<>>
AllWhitespace(css) == \A i \in 1..Len(css) : css[i].kind = "ws"
RequestedMode(c) ==
  IF calls[c].api = "tool"
  THEN (IF calls[c].args.modeKind = "string" THEN calls[c].args.mode ELSE NoMode)
  ELSE calls[c].mode

\* C9: convertCSS on an empty or whitespace-only text returns exactly
\* { tailwindClasses: "", suggestions: ["Provide some CSS to convert"] } without
\* an unsupportedStyles key and without invoking the parser.
C9_EmptyInputShortCircuit ==
  \A c \in DOMAIN calls :
    (/\ ServiceCalled(c)
     /\ calls[c].status \in {"resolved", "rejected"}
     /\ AllWhitespace(calls[c].css)) =>
      /\ calls[c].status = "resolved"
      /\ calls[c].result =
           Some([tailwindClasses |-> <<>>, unsupportedStyles |-> None,
                 suggestions |-> Some(<< <<"P", "r", "o", "v", "i", "d", "e", " ", "s", "o", "m", "e", " ",
                                           "C", "S", "S", " ", "t", "o", " ", "c", "o", "n", "v", "e", "r", "t">> >>)])
      /\ calls[c].parserCalls = 0

C9_Witness ==
  \E c \in DOMAIN calls :
    /\ calls[c].api = "convertCSS"
    /\ calls[c].status = "resolved"
    /\ Len(calls[c].css) = 2
    /\ AllWhitespace(calls[c].css)
    /\ calls[c].parserCalls = 0

\* C10: with mode 'inline' tailwindClasses is class="<joined>", where <joined> is
\* what mode 'classes' returns for the same text: the single-space join of the
\* classes in declaration order.
ClassesModeOutput(css) == convertCSS([css |-> css, mode |-> "classes"]).out.result[1].tailwindClasses

C10_InlineMode ==
  \A c \in DOMAIN calls :
    (/\ ServiceCalled(c)
     /\ calls[c].status = "resolved"
     /\ RequestedMode(c) = "inline"
     /\ ~AllWhitespace(calls[c].css)) =>
      /\ calls[c].result[1].tailwindClasses =
           <<"c", "l", "a", "s", "s", "=", "\"">> \o ClassesModeOutput(calls[c].css) \o <<"\"">>
      /\ ClassesModeOutput(calls[c].css) = SpaceJoined(ExpectedClasses(c))

C10_Witness ==
  \E c \in DOMAIN calls :
    /\ calls[c].api = "tool"
    /\ calls[c].status = "resolved"
    /\ RequestedMode(c) = "inline"
    /\ calls[c].result[1].tailwindClasses =
         <<"c", "l", "a", "s", "s", "=", "\"", "f", "l", "e", "x", " ", "m", "-", "4", "\"">>

\* the outcome of the same request in mode 'classes'
ClassesModeOutcome(css) == convertCSS([css |-> css, mode |-> "classes"]).out

\* C11: with mode 'component' tailwindClasses is the block made of the selector
\* line '.component {', one line '@apply <joined>;' and a closing brace, where
\* <joined> is what mode 'classes' returns for the same text.
C11_ComponentMode ==
  \A c \in DOMAIN calls :
    (/\ ServiceCalled(c)
     /\ calls[c].status = "resolved"
     /\ RequestedMode(c) = "component"
     /\ ~AllWhitespace(calls[c].css)) =>
      /\ calls[c].result[1].tailwindClasses =
           <<".", "c", "o", "m", "p", "o", "n", "e", "n", "t", " ", "{", "\n">>
           \o <<" ", " ", "@", "a", "p", "p", "l", "y", " ">> \o ClassesModeOutput(calls[c].css) \o <<";", "\n">>
           \o <<"}">>
      /\ ClassesModeOutput(calls[c].css) = SpaceJoined(ExpectedClasses(c))

C11_Witness ==
  \E c \in DOMAIN calls :
    /\ calls[c].api = "tool"
    /\ calls[c].status = "resolved"
    /\ RequestedMode(c) = "component"
    /\ calls[c].result[1].tailwindClasses =
         <<".", "c", "o", "m", "p", "o", "n", "e", "n", "t", " ", "{", "\n",
           " ", " ", "@", "a", "p", "p", "l", "y", " ", "f", "l", "e", "x", " ", "m", "-", "4", ";", "\n",
           "}">>

\* a request whose mode is not one of 'classes', 'inline', 'component'
UnrecognizedMode(c) ==
  IF calls[c].api = "tool"
  THEN calls[c].args.modeKind # "string" \/ calls[c].args.mode \notin {"classes", "inline", "component"}
  ELSE calls[c].mode \notin {"classes", "inline", "component"}

\* C12: a request with an unrecognized mode settles exactly like the same request
\* in mode 'classes': it fails only if the parser rejects the text, and otherwise
\* returns the plain space-joined classes with the same unsupportedStyles and
\* suggestions, whether the mode went through the tool layer or reached the
\* formatter directly.
C12_UnrecognizedModeAsClasses ==
  \A c \in DOMAIN calls :
    (/\ ServiceCalled(c)
     /\ calls[c].status \in {"resolved", "rejected"}
     /\ UnrecognizedMode(c)) =>
      /\ (calls[c].status = "resolved") = ParserAccepts(calls[c].css)
      /\ calls[c].result = ClassesModeOutcome(calls[c].css).result
      /\ calls[c].status = "rejected" =>
           calls[c].error[1].originalError = "CssSyntaxError" \/ calls[c].error[1].code = "InternalError"
      /\ (calls[c].status = "resolved" /\ ~AllWhitespace(calls[c].css)) =>
           /\ calls[c].result[1].tailwindClasses = SpaceJoined(ExpectedClasses(c))
           /\ UnsupportedList(c) = UnsupportedEntries(c)
           /\ SuggestionList(c) = ExpectedSuggestions(c)

C12_Witness ==
  \E c \in DOMAIN calls :
    /\ calls[c].api = "tool"
    /\ calls[c].status = "resolved"
    /\ calls[c].args.modeKind = "string"
    /\ calls[c].args.mode = "fancy"
    /\ calls[c].result[1].tailwindClasses = <<"m", "-", "[", "1", ".", "7", "5", "r", "e", "m", "]", " ", "f", "l", "e", "x">>
    /\ SuggestionList(c) # <<>>

\* C13: in every result, unsupportedStyles is present exactly when some declaration
\* is unsupported and suggestions exactly when some declaration took the
\* arbitrary-value path; a key that is present never holds an empty list.
C13_ResultAssembly ==
  \A c \in DOMAIN calls :
    MapperDone(c) =>
      LET r == calls[c].result[1]
          D == CallDecls(c)
      IN  /\ (r.unsupportedStyles # None) =
               (\E i \in 1..Len(D) : IsUnsupported(calls[c].pm, calls[c].um, D[i]))
          /\ (r.suggestions # None) =
               (\E i \in 1..Len(D) : IsArbitrary(calls[c].pm, calls[c].um, D[i]))
          /\ r.unsupportedStyles # None => r.unsupportedStyles[1] # <<>>
          /\ r.suggestions # None => r.suggestions[1] # <<>>

C13_Witness ==
  \E c \in DOMAIN calls :
    /\ MapperDone(c)
    /\ Len(CallDecls(c)) = 2
    /\ calls[c].result[1].unsupportedStyles = None
    /\ calls[c].result[1].suggestions # None
    /\ Len(calls[c].result[1].suggestions[1]) = 1

\* a settled call of UtilityMapperService.convertCSSToTailwind
MapperSettled(c) ==
  calls[c].api = "convertCSSToTailwind" /\ calls[c].status \in {"resolved", "rejected"}

\* the table was loaded when the call walked its declarations
WalkedInitialized(c) == InTable(calls[c].pm, P_margin)

\* C14: two calls with the same css and mode that both ran on an initialized
\* service settle alike: the same tailwindClasses, unsupportedStyles and
\* suggestions, or the same failure, whatever happened between them (other calls,
\* a repeated initialize()).
C14_Determinism ==
  \A c1, c2 \in DOMAIN calls :
    (/\ MapperSettled(c1) /\ MapperSettled(c2)
     /\ calls[c1].css = calls[c2].css
     /\ calls[c1].mode = calls[c2].mode
     /\ WalkedInitialized(c1) /\ WalkedInitialized(c2)) =>
      /\ calls[c1].status = calls[c2].status
      /\ calls[c1].result = calls[c2].result
      /\ calls[c1].error = calls[c2].error

C14_Witness ==
  \E c1, c2 \in DOMAIN calls :
    /\ c1 # c2
    /\ MapperDone(c1) /\ MapperDone(c2)
    /\ calls[c1].css = calls[c2].css
    /\ calls[c1].mode = calls[c2].mode
    /\ WalkedInitialized(c1) /\ WalkedInitialized(c2)
    /\ calls[c1].pm # calls[c2].pm
    /\ calls[c1].result[1].tailwindClasses =
         <<"m", "-", "4", " ", "m", "-", "[", "1", ".", "7", "5", "r", "e", "m", "]">>

\* C15: with several calls in flight, every call settles as it does alone: it
\* fails exactly when the parser rejects its own text, and its classes,
\* unsupported entries and suggestions are those of its own declarations, in
\* order, with no entry of another call.
C15_NoInterference ==
  \A c \in DOMAIN calls :
    MapperSettled(c) =>
      /\ (calls[c].status = "resolved") = ParserAccepts(calls[c].css)
      /\ calls[c].status = "resolved" =>
           /\ calls[c].result[1].tailwindClasses = SpaceJoined(ExpectedClasses(c))
           /\ UnsupportedList(c) = UnsupportedEntries(c)
           /\ SuggestionList(c) = ExpectedSuggestions(c)

C15_Witness ==
  \E c1, c2 \in DOMAIN calls :
    /\ MapperDone(c1) /\ MapperDone(c2)
    /\ WalkedInitialized(c1) /\ WalkedInitialized(c2)
    /\ calls[c1].css # calls[c2].css
    /\ calls[c1].result[1].tailwindClasses =
         <<"m", "-", "4", " ", "m", "-", "[", "1", ".", "7", "5", "r", "e", "m", "]">>
    /\ calls[c2].result[1].tailwindClasses = <<"f", "l", "e", "x">>
    /\ UnsupportedList(c2) # <<>>

\* a step of a convertCSSToTailwind call: its start, or its settling with a result
\* or an error
ConversionStep ==
  \E c \in DOMAIN calls :
    /\ calls'[c] # calls[c]
    /\ calls'[c].api = "convertCSSToTailwind"
    /\ calls'[c].status \in {"pending", "resolved", "rejected"}

\* C16: no step of a conversion call changes utilityMap, cssPropertyMap or colorMap:
\* after the call they hold exactly the entries they held before it.
C16_TableUnchangedByConversion ==
  [][ConversionStep =>
       /\ utilityMap' = utilityMap
       /\ cssPropertyMap' = cssPropertyMap
       /\ colorMap' = colorMap]_vars

C16_Witness ==
  \E c \in DOMAIN calls :
    /\ MapperDone(c)
    /\ SuggestionList(c) # <<>>
    /\ UnsupportedList(c) # <<>>
    /\ calls[c].pm = cssPropertyMap
    /\ calls[c].um = utilityMap
    /\ InTable(cssPropertyMap, P_margin)
    /\ colorMap # EmptyMap

\* the declarations of a call whose value is the empty string
EmptyValued(c) == { i \in 1..Len(CallDecls(c)) : CallDecls(c)[i].value = <<>> }
HasEmptyBrackets(cls) == \E k \in 1..(Len(cls) - 1) : cls[k] = "[" /\ cls[k + 1] = "]"

\* C17: every declaration with an empty value is recorded as '<property>: ' in
\* unsupportedStyles and produces no class: the classes are at most as many as the
\* declarations with a non-empty value, and none has empty brackets.
C17_EmptyValueUnsupported ==
  \A c \in DOMAIN calls :
    MapperDone(c) =>
      /\ \A i \in EmptyValued(c) :
           (CallDecls(c)[i].prop \o <<":", " ">>) \in Range(UnsupportedList(c))
      /\ Len(ClassList(c)) <= Len(CallDecls(c)) - Cardinality(EmptyValued(c))
      /\ \A k \in 1..Len(ClassList(c)) : ~HasEmptyBrackets(ClassList(c)[k])

\* C18: convertCSSToTailwind on the empty or a whitespace-only text returns
\* tailwindClasses '' with unsupportedStyles and suggestions undefined, whatever
\* the state of the table.
C18_MapperEmptyInput ==
  \A c \in DOMAIN calls :
    (MapperSettled(c) /\ AllWhitespace(calls[c].css)) =>
      /\ calls[c].status = "resolved"
      /\ calls[c].result =
           Some([tailwindClasses |-> <<>>, unsupportedStyles |-> None, suggestions |-> None])

C18_Witness ==
  \E c \in DOMAIN calls :
    /\ MapperDone(c)
    /\ Len(calls[c].css) = 2
    /\ AllWhitespace(calls[c].css)
    /\ WalkedInitialized(c)
    /\ calls[c].result[1].tailwindClasses = <<>>

\* the arguments the queries are asked with
CategoryArgs == { UtilityMappings[i][4] : i \in 1..Len(UtilityMappings) } \cup {"unknown"}
PropertyArgs == { UtilityMappings[i][2] : i \in 1..Len(UtilityMappings) } \cup {P_color, P_filter}
ColorArgs == {None, Some(""), Some("slate"), Some("blue"), Some("red")}

\* what a caller observes of empty maps
UtilityQueriesEmpty(um, pm) ==
  /\ \A category \in CategoryArgs : getUtilitiesByCategory(um, category) = {}
  /\ \A property \in PropertyArgs : getUtilitiesByProperty(pm, um, property) = <<>>
ColorQueriesEmpty(cm) == \A colorName \in ColorArgs : getColorInfo(cm, colorName) = {}
UtilitiesGone == UtilityQueriesEmpty(utilityMap, cssPropertyMap)
ColorsGone == ColorQueriesEmpty(colorMap)

\* a step in which initialize() is called / in which a suspended initialize() resumes
InitializeCalled == initPending' > initPending
InitializeResumed == initPending' < initPending

\* a call that walked its declarations while the table was empty records all of
\* them as unsupported
EmptyTableAllUnsupported ==
  \A c \in DOMAIN calls :
    (MapperDone(c) /\ UtilityQueriesEmpty(calls[c].um, calls[c].pm)) =>
      /\ ClassList(c) = <<>>
      /\ SuggestionList(c) = <<>>
      /\ UnsupportedList(c) =
           [i \in 1..Len(CallDecls(c)) |-> CallDecls(c)[i].prop \o <<":", " ">> \o CallDecls(c)[i].value]

\* C19 as stated: cleanup() empties the three maps and, until initialize() is
\* called again, every query returns [] and every converted declaration is
\* unsupported.
C19_EmptyUntilNextInitialize ==
  /\ [][Cleanup => (UtilitiesGone' /\ ColorsGone')]_vars
  /\ [][((UtilitiesGone /\ ColorsGone) /\ ~InitializeCalled) => (UtilitiesGone' /\ ColorsGone')]_vars
  /\ []EmptyTableAllUnsupported

\* C19 (amended): cleanup() empties the three maps; the utility queries return []
\* and conversions record every declaration as unsupported until initialize() is
\* called again; getColorInfo returns [] until an initialize() call resumes, be
\* it the next one or one that was suspended when cleanup() ran.
C19_CleanupEmptiesMaps ==
  /\ [][Cleanup => (UtilitiesGone' /\ ColorsGone')]_vars
  /\ [][(UtilitiesGone /\ ~InitializeCalled) => UtilitiesGone']_vars
  /\ [][(ColorsGone /\ ~InitializeResumed) => ColorsGone']_vars
  /\ []EmptyTableAllUnsupported

C19_Witness ==
  \E c1, c2 \in DOMAIN calls :
    /\ MapperDone(c1) /\ WalkedInitialized(c1)
    /\ MapperDone(c2) /\ calls[c2].pm = EmptyMap
    /\ Len(UnsupportedList(c2)) = 2
    /\ UtilitiesGone /\ ColorsGone
    /\ initPending = 0

(* ---- C20: the documentation page cache ---- *)

\* call s is made in this step
ScrapePageCalled(s) == scrapes[s].status = "idle" /\ scrapes'[s].status # "idle"

\* the cache holds an entry under key that is at most 24 h old
FreshEntry(key) ==
  /\ key \in DOMAIN cache
  /\ now - cache[key].lastUpdated <= 24 * 60 * 60 * 1000

\* a call that finds a fresh entry is settled with that very object and issues
\* no request; every other call issues exactly one request and is suspended
ServedFromCacheIffFresh ==
  \A s \in DOMAIN scrapes :
    ScrapePageCalled(s) =>
      LET key == scrapes'[s].cacheKey
      IN  /\ FreshEntry(key) <=> scrapes'[s].requests = 0
          /\ FreshEntry(key) => /\ scrapes'[s].status = "resolved"
                                /\ scrapes'[s].document = Some(cache[key])
          /\ ~FreshEntry(key) => /\ scrapes'[s].requests = 1
                                 /\ scrapes'[s].status = "fetching"
          /\ cache' = cache

\* a call issues its request when it is made or never
RequestsFixedAtCall ==
  \A s \in DOMAIN scrapes :
    scrapes[s].status # "idle" => scrapes'[s].requests = scrapes[s].requests

\* a successful request stores the new document, a new object, under the key
StoresFetchedDocument ==
  \A s \in DOMAIN scrapes :
    (scrapes[s].status = "fetching" /\ scrapes'[s].status = "resolved") =>
      LET doc == scrapes'[s].document[1]
      IN  /\ MapGet(cache', scrapes[s].cacheKey) = Some(doc)
          /\ doc.lastUpdated = now
          /\ \A k \in DOMAIN cache : cache[k].id # doc.id
          /\ \A k \in DOMAIN cache \ {scrapes[s].cacheKey} : MapGet(cache', k) = Some(cache[k])

\* a call for the path and version of an earlier, successfully fetched call
\* whose document is still cached and at most 24 h old gets that document
\* without a request
SecondCallServedFromCache ==
  \A first, second \in DOMAIN scrapes :
    ( /\ first # second
      /\ scrapes[first].status = "resolved"
      /\ scrapes[first].requests = 1
      /\ MapGet(cache, scrapes[first].cacheKey) = scrapes[first].document
      /\ now - scrapes[first].document[1].lastUpdated <= 24 * 60 * 60 * 1000
      /\ ScrapePageCalled(second)
      /\ scrapes'[second].path = scrapes[first].path
      /\ scrapes'[second].version = scrapes[first].version )
    => /\ scrapes'[second].status = "resolved"
       /\ scrapes'[second].requests = 0
       /\ scrapes'[second].document = scrapes[first].document

\* C20: scrapePage returns the cached document (the same object) and issues no
\* HTTP request exactly when the cache holds an entry for the page's key that
\* is at most 24 h old; otherwise it issues exactly one request and, on
\* success, stores the new document under that key, so that a second call for
\* the same path within the TTL, the entry still being cached, issues none.
C20_PageCache ==
  /\ [][ServedFromCacheIffFresh]_vars
  /\ [][RequestsFixedAtCall]_vars
  /\ [][StoresFetchedDocument]_vars
  /\ [][SecondCallServedFromCache]_vars

\* C20 witness: a document fetched by one call, and 24 h old by now, has been
\* returned, the same object and without a request, to a second call for the
\* same page
C20_Witness ==
  \E first, second \in DOMAIN scrapes :
    /\ first # second
    /\ scrapes[first].status = "resolved"
    /\ scrapes[first].requests = 1
    /\ scrapes[second].status = "resolved"
    /\ scrapes[second].requests = 0
    /\ scrapes[second].path = scrapes[first].path
    /\ scrapes[second].document = scrapes[first].document
    /\ scrapes[second].version = scrapes[first].version
    /\ now - scrapes[first].document[1].lastUpdated = 24 * 60 * 60 * 1000

(* ---- C23: cache statistics ---- *)

\* the ratio a / b as getCacheStats reports it
IsRatio(hitRate, a, b) == hitRate[1] * b = a * hitRate[2]

\* C23: totalEntries is the number of cache entries; hitRate is cacheHits /
\* cacheRequests, or 0 when no request has been counted; the counters are the
\* numbers of updateCacheStats calls made and of those made with isHit true.
C23_CacheStatistics ==
  LET stats == getCacheStats
  IN  /\ stats.totalEntries = Cardinality({k \in TestKeys : MapHas(cache, k)})
      /\ DOMAIN cache \subseteq TestKeys
      /\ cacheRequests = statCalls.all
      /\ cacheHits = statCalls.hits
      /\ IF statCalls.all = 0
         THEN IsRatio(stats.hitRate, 0, 1)
         ELSE IsRatio(stats.hitRate, statCalls.hits, statCalls.all)

\* C23 witness: 2 hits out of 3 requests on a cache of two entries give 2/3
C23_Witness ==
  /\ statCalls = [all |-> 3, hits |-> 2]
  /\ getCacheStats.totalEntries = 2
  /\ IsRatio(getCacheStats.hitRate, 2, 3)
  /\ ~IsRatio(getCacheStats.hitRate, 1, 1)

(* ---- C24: clearCache ---- *)

\* a step that lowers a counter or moves lastCleanup: only clearCache() does
StatsReset ==
  \/ cacheRequests' < cacheRequests
  \/ cacheHits' < cacheHits
  \/ lastCleanup' # lastCleanup

InitialCacheState ==
  /\ cache = EmptyMap
  /\ cacheHits = 0
  /\ cacheRequests = 0
  /\ getCacheStats.totalEntries = 0
  /\ IsRatio(getCacheStats.hitRate, 0, 1)

\* C24: clearCache() leaves the cache with 0 entries, cacheHits and
\* cacheRequests at 0 and hitRate 0, from whatever state it is called in.
C24_ClearCacheResets == [][StatsReset => InitialCacheState']_vars

\* C24 witness: the cache state is the initial one although a page has been
\* fetched and stored and requests have been counted
C24_Witness ==
  /\ InitialCacheState
  /\ \E s \in DOMAIN scrapes : scrapes[s].status = "resolved" /\ scrapes[s].requests = 1

(* ---- C28: hit-rate accounting of scrapePage ---- *)

\* call s was served from the cache
ServedFromCache(s) == scrapes[s].status = "resolved" /\ scrapes[s].requests = 0

\* the step of a scrapePage call counts one request, and one hit exactly when
\* the call is served from the cache
CountsOneRequestPerCall ==
  \A s \in DOMAIN scrapes :
    ScrapePageCalled(s) =>
      /\ cacheRequests' = cacheRequests + 1
      /\ cacheHits' = IF ServedFromCache(s)' THEN cacheHits + 1 ELSE cacheHits

\* C28: every scrapePage call counts as exactly one cache request and a call
\* served from the cache as exactly one hit, so that hitRate is (calls served
\* from the cache) / (scrapePage calls); cacheHits never exceeds cacheRequests.
C28_HitRateAccounting ==
  /\ [][CountsOneRequestPerCall]_vars
  /\ [](cacheHits <= cacheRequests)

(* ---- C29: a failed fetch ---- *)

\* the request of call s fails in this step
ScrapePageRejected(s) == scrapes[s].status = "fetching" /\ scrapes'[s].status = "rejected"

\* the failing call rejects with the ServiceError of scrapePage around the
\* cause and leaves every cache entry as it was
FailedFetchKeepsCache ==
  \A s \in DOMAIN scrapes :
    ScrapePageRejected(s) =>
      /\ scrapes'[s].document = None
      /\ \E cause \in Causes :
           LET e == scrapes'[s].error[1]
           IN  /\ e.name = "ServiceError"
               /\ e.service = "DocumentationScraperService"
               /\ e.operation = "scrapePage"
               /\ e.originalError = cause
      /\ DOMAIN cache' = DOMAIN cache
      /\ \A k \in DOMAIN cache : cache'[k] = cache[k]

\* a call that does not wait for a response is never rejected
RejectedOnlyWhenFetching ==
  \A s \in DOMAIN scrapes :
    scrapes[s].status = "rejected" => scrapes[s].requests = 1 /\ scrapes[s].error # None

\* a call for the page of a failed call issues a new request, unless the
\* successful request of another call has stored the page in the meantime
RetriesAfterFailure ==
  \A failed, later \in DOMAIN scrapes :
    ( /\ scrapes[failed].status = "rejected"
      /\ ScrapePageCalled(later)
      /\ scrapes'[later].path = scrapes[failed].path
      /\ scrapes'[later].version = scrapes[failed].version )
    => \/ scrapes'[later].requests = 1
       \/ \E other \in DOMAIN scrapes \ {failed, later} :
            /\ scrapes[other].status = "resolved"
            /\ scrapes[other].requests = 1
            /\ scrapes[other].cacheKey = scrapes[failed].cacheKey
            /\ scrapes'[later].document = scrapes[other].document

NoRepeats(seq) == \A i, j \in 1..Len(seq) : seq[i] = seq[j] => i = j

\* C25: in every state reached by initialize() and cleanup() calls, each CSS
\* property maps to a list in which every utility appears at most once, so the
\* value strings of one property's pairs are unique.
C25_PropertyListsUnique ==
  \A p \in DOMAIN cssPropertyMap :
    /\ NoRepeats(cssPropertyMap[p])
    /\ LET T == TablePairs(cssPropertyMap, utilityMap, p)
       IN  NoRepeats([i \in 1..Len(T) |-> T[i].value])

(* ---- C26: initialize() is idempotent ---- *)

\* the maps are as one initialize() on a new service leaves them
AsAfterOneInitialize ==
  /\ utilityMap = LoadedMaps.utilityMap
  /\ cssPropertyMap = LoadedMaps.cssPropertyMap
  /\ initPending = 0 => colorMap = loadColorMappings(EmptyMap)
  /\ \A p \in DOMAIN LoadedMaps.cssPropertyMap :
       Len(getUtilitiesByProperty(cssPropertyMap, utilityMap, p))
         = Len(getUtilitiesByProperty(LoadedMaps.cssPropertyMap, LoadedMaps.utilityMap, p))

\* C26: after one or several initialize() calls without a cleanup() in between,
\* utilityMap, cssPropertyMap and colorMap equal their state after a single
\* initialize(), and getUtilitiesByProperty returns a list of the same length.
C26_InitializeIdempotent == LoadCount >= 1 => AsAfterOneInitialize

(* ---- C27: the table a conversion reads ---- *)

\* what a call with this text returns on an initialized service
OutcomeWhenInitialized(css, mode) ==
  convertCSSToTailwind(css, mode, LoadedMaps.cssPropertyMap, LoadedMaps.utilityMap)

\* C27: a call started on an initialized service returns the result determined
\* by the table as it was when the call started, whatever cleanup() or
\* initialize() calls run while it is suspended in the parse step. (Every call
\* of InterleavedSpec starts on an initialized service.)
C27_TableAtCallStart ==
  \A c \in DOMAIN calls :
    MapperSettled(c) =>
      LET out == OutcomeWhenInitialized(calls[c].css, calls[c].mode)
      IN  /\ (calls[c].status = "resolved") = out.ok
          /\ calls[c].result = out.result
          /\ calls[c].error = out.error

(* ---- C30: validation in the tool layer ---- *)

\* the css argument of the request is missing, not a string, or the empty string
InvalidCss(args) == args.cssKind # "string" \/ args.css = <<>>

\* a tool request is made in this step
ToolRequested(c) == calls[c].status = "idle" /\ calls'[c].api = "tool"

\* a request with an invalid css is rejected in the step that makes it, with
\* InvalidParams and without a call of the conversion service; any other
\* request is handed to the service
RejectedBeforeService ==
  \A c \in DOMAIN calls :
    ToolRequested(c) =>
      IF InvalidCss(calls'[c].args)
      THEN /\ calls'[c].status = "rejected"
           /\ calls'[c].error = Some(McpError("InvalidParams"))
           /\ calls'[c].parserCalls = 0
      ELSE /\ calls'[c].status = "pending"
           /\ calls'[c].css = calls'[c].args.css

\* every error leaving the handler is an McpError: InvalidParams for an invalid
\* css, InternalError for a failure of the service
OnlyMcpErrors ==
  \A c \in DOMAIN calls :
    (calls[c].api = "tool" /\ calls[c].status = "rejected") =>
      /\ calls[c].error # None
      /\ calls[c].error[1].name = "McpError"
      /\ calls[c].error[1].code =
           IF InvalidCss(calls[c].args) THEN "InvalidParams" ELSE "InternalError"
      /\ calls[c].result = None

\* the service never sees the empty string through the tool layer
EmptyNeverReachesService ==
  \A c \in DOMAIN calls :
    (calls[c].api = "tool" /\ calls[c].status \in {"pending", "resolved"}) =>
      calls[c].css # <<>>

\* C30: a convert_css_to_tailwind request whose css is missing, not a string or
\* the empty string is rejected with an InvalidParams McpError before the
\* conversion service is invoked, so the empty string never reaches convertCSS
\* through the tool layer; every error leaving the handler is an McpError.
C30_ToolValidation ==
  /\ [][RejectedBeforeService]_vars
  /\ []OnlyMcpErrors
  /\ []EmptyNeverReachesService

\* C30 witness: a request with the empty string as css has been rejected with
\* InvalidParams, no parse attempted
C30_Witness ==
  \E c \in DOMAIN calls :
    /\ calls[c].api = "tool"
    /\ calls[c].args.cssKind = "string"
    /\ calls[c].args.css = <<>>
    /\ calls[c].status = "rejected"
    /\ calls[c].error = Some(McpError("InvalidParams"))
    /\ calls[c].parserCalls = 0

(* ---- C21, C22: ServiceRegistry ---- *)

\* an initializeAll() / cleanupAll() call is made in this step
RegistryCalled(op) == registryCall.status = "idle" /\ registryCall'.op = op

\* the call invokes the method on every registered service
InvokesEveryService(op) ==
  RegistryCalled(op) => DOMAIN registryCall'.promises = DOMAIN services

\* the cleanup() of service n has settled: it failed, or it has cleaned up
CleanupRan(n) ==
  /\ registryCall.promises[n] # "pending"
  /\ services[n].shouldFailCleanup \/ services[n].cleanupCalled

\* C21: cleanupAll invokes cleanup() on every registered service, the rejection
\* of one cleanup() does not prevent the cleanup of any other service, and
\* cleanupAll always resolves, also on an empty registry.
C21_CleanupAll ==
  /\ [][InvokesEveryService("cleanupAll")]_vars
  /\ [](registryCall.op = "cleanupAll" =>
          /\ registryCall.status # "rejected"
          /\ registryCall.error = None
          /\ DOMAIN registryCall.promises = {} => registryCall.status = "resolved"
          /\ registryCall.status = "resolved" <=>
               \A n \in DOMAIN registryCall.promises : CleanupRan(n))

\* C21 witness: cleanupAll has resolved although the cleanup() of one service
\* was rejected, and another service has been cleaned up
C21_Witness ==
  /\ registryCall.op = "cleanupAll"
  /\ registryCall.status = "resolved"
  /\ \E failing, working \in DOMAIN registryCall.promises :
       /\ services[failing].shouldFailCleanup
       /\ ~services[failing].cleanupCalled
       /\ ~services[working].shouldFailCleanup
       /\ services[working].cleanupCalled

\* C22: initializeAll invokes initialize() on every registered service, resolves
\* only if every initialize() resolves, rejects with a failing service's error
\* as soon as an initialize() rejects, and resolves on an empty registry.
C22_InitializeAll ==
  /\ [][InvokesEveryService("initializeAll")]_vars
  /\ [](registryCall.op = "initializeAll" =>
          LET P == registryCall.promises
          IN  /\ registryCall.status = "resolved" <=>
                   \A n \in DOMAIN P : /\ P[n] = "fulfilled"
                                       /\ ~services[n].shouldFailInitialize
                                       /\ services[n].initializeCalled
              /\ registryCall.status = "rejected" <=> \E n \in DOMAIN P : P[n] = "rejected"
              /\ registryCall.status = "rejected" =>
                   \E n \in DOMAIN P :
                      /\ P[n] = "rejected"
                      /\ services[n].shouldFailInitialize
                      /\ registryCall.error = Some([message |-> "Initialize failed", service |-> n]))

\* C22 witness: initializeAll has rejected with the error of the failing service
\* while the initialize() of another service is still pending
C22_Witness ==
  /\ registryCall.op = "initializeAll"
  /\ registryCall.status = "rejected"
  /\ \E failing, other \in DOMAIN registryCall.promises :
       /\ registryCall.error = Some([message |-> "Initialize failed", service |-> failing])
       /\ registryCall.promises[other] = "pending"
====
